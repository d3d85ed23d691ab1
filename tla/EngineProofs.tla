---------------------------- MODULE EngineProofs -----------------------------
(***************************************************************************)
(* The safety properties of the engine, for every value of the constants:  *)
(* that it is type correct, that no configuration is lost and the pipeline *)
(* is the one the active configuration describes, and what the threads of  *)
(* a session have told each other when one of them ends.  Every invariant  *)
(* is shown action by action.                                              *)
(***************************************************************************)
EXTENDS Engine, SequenceTheorems, TLAPS

-----------------------------------------------------------------------------
(***************************************************************************)
(* Types.  TypeInv is inductive by itself.                                 *)
(***************************************************************************)
\* What the type invariant needs to be inductive: the supervisor has a session,
\* with a configuration, while it supervises one; why the session ends is known
\* once it is ending; and the processing thread has a message when it sends one.
SessionOK ==
  /\ stage \in {"starting", "barrier", "running", "joining"} =>
       cur \in Slots /\ activeConf \in Configs
  /\ stage \in {"starting", "running"} => ending = "None"
  /\ stage = "barrier" => ending \in {"None"} \cup DeviceFaults
  /\ stage = "joining" => ending # "None"
  /\ stage = "joining" /\ ending = "Devices" => nextConf \in Configs
  /\ \A s \in Slots : proc[s] = "send" => procMsg[s] \in AudioMessages

TypeInv == TypeOK /\ SessionOK

-----------------------------------------------------------------------------
\* --------------------------- Messages and queues -------------------------

\* The three kinds of controller messages, and what is known of one of them.
LEMMA Commands ==
  /\ \A c \in Configs : /\ ConfigChanged(c) \in ControllerMessages
                        /\ ConfigChanged(c).type = "ConfigChanged"
                        /\ ConfigChanged(c).conf = c
  /\ Stop \in ControllerMessages /\ Stop.type = "Stop"
  /\ Exit \in ControllerMessages /\ Exit.type = "Exit"
  /\ \A m \in ControllerMessages :
       \/ m = ConfigChanged(m.conf) /\ m.conf \in Configs
       \/ m = Stop \/ m = Exit
  /\ NoCommand.type = "None"
  BY SMT DEF ConfigChanged, Stop, Exit, ControllerMessages, NoCommand

\* What Head, Tail and Append do to a queue of messages of one kind.
LEMMA Queues ==
  ASSUME NEW M, NEW q \in Seq(M)
  PROVE  /\ q # <<>> => /\ Head(q) \in M /\ Head(q) = q[1]
                       /\ Tail(q) \in Seq(M) /\ Len(Tail(q)) = Len(q) - 1
                       /\ Len(q) > 0
         /\ \A m \in M : /\ Append(q, m) \in Seq(M)
                         /\ Len(Append(q, m)) = Len(q) + 1
                         /\ Append(q, m) # <<>>
                         /\ Append(q, m)[Len(q) + 1] = m
<1>1. ASSUME q # <<>>
      PROVE  /\ Head(q) \in M /\ Head(q) = q[1]
             /\ Tail(q) \in Seq(M) /\ Len(Tail(q)) = Len(q) - 1
             /\ Len(q) > 0
  BY <1>1
<1>2. ASSUME NEW m \in M
      PROVE  /\ Append(q, m) \in Seq(M)
             /\ Len(Append(q, m)) = Len(q) + 1
             /\ Append(q, m)[Len(q) + 1] = m
  OBVIOUS
<1>3. ASSUME NEW m \in M PROVE Append(q, m) # <<>>
  BY <1>2
<1> QED
  BY <1>1, <1>2, <1>3

LEMMA InitTypeInv == Init => TypeInv
<1> SUFFICES ASSUME Init PROVE TypeInv
  OBVIOUS
<1>1. MainTypeOK
  BY DEF Init, MainTypeOK, Stages, Endings, Option
<1>2. SharedTypeOK
  <2>1. ctrl \in Seq(ControllerMessages) /\ Len(ctrl) <= CtrlCapacity
    <3>1. CASE ctrl = <<>>
      BY <3>1, BoundsAssumption
    <3>2. ASSUME NEW c \in Configs, ctrl = <<ConfigChanged(c)>>
          PROVE  ctrl \in Seq(ControllerMessages) /\ Len(ctrl) <= CtrlCapacity
      <4>1. ConfigChanged(c) \in ControllerMessages
        BY Commands
      <4>2. <<ConfigChanged(c)>> \in Seq(ControllerMessages) /\ Len(<<ConfigChanged(c)>>) = 1
        BY <4>1
      <4> QED
        BY <3>2, <4>2, BoundsAssumption
    <3> QED
      BY <3>1, <3>2 DEF Init
  <2>2. lastCommand \in ControllerMessages \cup {NoCommand}
    BY Commands DEF Init
  <2> QED
    BY <2>1, <2>2 DEF Init, SharedTypeOK, Option, StopReasons, ProcessingStates
<1>3. ThreadTypeOK
  BY DEF Init, ThreadTypeOK, CaptureSteps, PlaybackSteps, ProcSteps
<1>4. AudioQueuesOK
  BY BoundsAssumption DEF Init, AudioQueuesOK
<1>5. OtherQueuesOK
  BY DEF Init, OtherQueuesOK
<1>6. SessionOK
  BY DEF Init, SessionOK
<1> QED
  BY <1>1, <1>2, <1>3, <1>4, <1>5, <1>6 DEF TypeInv, TypeOK

LEMMA SendExitType ==
  ASSUME TypeInv, cur \in Slots, SendExitToCapture
  PROVE  cmdQ' \in [Slots -> Seq({"Exit"})]
<1>1. Append(cmdQ[cur], "Exit") \in Seq({"Exit"})
  BY Queues DEF TypeInv, TypeOK, OtherQueuesOK
<1> QED
  BY <1>1 DEF SendExitToCapture, TypeInv, TypeOK, OtherQueuesOK

LEMMA MainReceiveType == TypeInv /\ MainReceive => TypeInv'
<1> SUFFICES ASSUME TypeInv, MainReceive PROVE TypeInv'
  OBVIOUS
<1>1. /\ Head(ctrl) \in ControllerMessages
      /\ ctrl' \in Seq(ControllerMessages) /\ Len(ctrl') <= CtrlCapacity
  BY Queues, BoundsAssumption DEF MainReceive, TypeInv, TypeOK, SharedTypeOK
<1>2. active' \in Option(Configs)
  BY <1>1, Commands DEF MainReceive, TypeInv, TypeOK, SharedTypeOK, Option
<1> QED
  BY <1>1, <1>2 DEF MainReceive, Stages, mainVars, clientVars, configVars, captureVars, procVars, sessionVars,
     TypeInv, TypeOK, MainTypeOK, SharedTypeOK, ThreadTypeOK,
     AudioQueuesOK, OtherQueuesOK, SessionOK

LEMMA HandleReadyType == TypeInv /\ HandleReady => TypeInv'
<1> SUFFICES ASSUME TypeInv, HandleReady PROVE TypeInv'
  OBVIOUS
<1>1. ready' \in Seq(Devices)
  BY Queues DEF HandleReady, Devices, TypeInv, TypeOK, MainTypeOK
<1>2. /\ cur \in Slots /\ statusQ[cur] # <<>>
      /\ statusQ' = [statusQ EXCEPT ![cur] = Tail(@)]
  BY DEF HandleReady, ReceiveStatus, TypeInv, SessionOK
<1>3. statusQ' \in [Slots -> Seq(StatusMessages)]
  BY <1>2 DEF TypeInv, TypeOK, OtherQueuesOK
<1> QED
  BY <1>1, <1>2, <1>3 DEF HandleReady, ReceiveStatus, Stages, mainVars, clientVars, configVars, captureVars, procVars, sessionVars,
     TypeInv, TypeOK, MainTypeOK, SharedTypeOK, ThreadTypeOK,
     AudioQueuesOK, OtherQueuesOK, SessionOK

LEMMA HandleStopOrExitType == TypeInv /\ HandleStopOrExit => TypeInv'
<1> SUFFICES ASSUME TypeInv, HandleStopOrExit PROVE TypeInv'
  OBVIOUS
<1>1. /\ ctrl' \in Seq(ControllerMessages) /\ Len(ctrl') <= CtrlCapacity
      /\ ending' \in {"Stop", "Exit"}
  BY Queues, Commands, BoundsAssumption DEF HandleStopOrExit, TypeInv, TypeOK, SharedTypeOK
<1>2. cmdQ' \in [Slots -> Seq({"Exit"})]
  BY SendExitType DEF HandleStopOrExit, TypeInv, SessionOK
<1> QED
  BY <1>1, <1>2 DEF HandleStopOrExit, Stages, Endings, mainVars, clientVars, configVars, captureVars, procVars, sessionVars,
     TypeInv, TypeOK, MainTypeOK, SharedTypeOK, ThreadTypeOK,
     AudioQueuesOK, OtherQueuesOK, SessionOK

LEMMA HandlePlaybackFaultType ==
  ASSUME TypeInv, NEW msg \in PlaybackFaults, HandlePlaybackFault(msg) PROVE TypeInv'
<1>1. cmdQ' \in [Slots -> Seq({"Exit"})]
  BY SendExitType DEF HandlePlaybackFault, ReceiveStatus, TypeInv, SessionOK
<1>2. statusQ' \in [Slots -> Seq(StatusMessages)]
  BY DEF HandlePlaybackFault, ReceiveStatus, TypeInv, TypeOK, OtherQueuesOK, SessionOK
<1> QED
  BY <1>1, <1>2 DEF HandlePlaybackFault, ReceiveStatus, Stages, Endings, StopReasons, DeviceFaults, PlaybackFaults, mainVars, clientVars, configVars, captureVars, procVars, sessionVars,
     TypeInv, TypeOK, MainTypeOK, SharedTypeOK, ThreadTypeOK,
     AudioQueuesOK, OtherQueuesOK, SessionOK

LEMMA HandleCaptureFaultType ==
  ASSUME TypeInv, NEW msg \in CaptureFaults, HandleCaptureFault(msg) PROVE TypeInv'
<1>2. statusQ' \in [Slots -> Seq(StatusMessages)]
  BY DEF HandleCaptureFault, ReceiveStatus, TypeInv, TypeOK, OtherQueuesOK, SessionOK
<1> QED
  BY <1>2 DEF HandleCaptureFault, ReceiveStatus, Stages, Endings, StopReasons, DeviceFaults, CaptureFaults, mainVars, clientVars, configVars, captureVars, procVars, sessionVars,
     TypeInv, TypeOK, MainTypeOK, SharedTypeOK, ThreadTypeOK,
     AudioQueuesOK, OtherQueuesOK, SessionOK

LEMMA StartSessionType ==
  ASSUME TypeInv, NEW s \in Slots, StartSession(s) PROVE TypeInv'
<1>1. AudioQueuesOK'
  BY BoundsAssumption DEF StartSession, TypeInv, TypeOK, AudioQueuesOK
<1> QED
  BY <1>1 DEF StartSession, HasConfig, Stages, Endings, Option, ProcessingStates, CaptureSteps, PlaybackSteps, ProcSteps, mainVars, clientVars, configVars, captureVars, procVars, sessionVars,
     TypeInv, TypeOK, MainTypeOK, SharedTypeOK, ThreadTypeOK,
     AudioQueuesOK, OtherQueuesOK, SessionOK

LEMMA SendCommandType ==
  ASSUME TypeInv, NEW msg \in ControllerMessages, SendCommand(msg) PROVE TypeInv'
<1>1. ctrl' \in Seq(ControllerMessages) /\ Len(ctrl') <= CtrlCapacity
  BY Queues, BoundsAssumption DEF SendCommand, TypeInv, TypeOK, SharedTypeOK
<1> QED
  BY <1>1 DEF SendCommand, mainVars, clientVars, configVars, captureVars, procVars, sessionVars,
     TypeInv, TypeOK, MainTypeOK, SharedTypeOK, ThreadTypeOK,
     AudioQueuesOK, OtherQueuesOK, SessionOK

LEMMA TermSignalType == TypeInv /\ TermSignal => TypeInv'
<1> SUFFICES ASSUME TypeInv, TermSignal PROVE TypeInv'
  OBVIOUS
<1>1. ctrl' \in Seq(ControllerMessages) /\ Len(ctrl') <= CtrlCapacity
  BY Queues, Commands, BoundsAssumption DEF TermSignal, TypeInv, TypeOK, SharedTypeOK
<1>2. lastCommand' \in ControllerMessages \cup {NoCommand}
  BY Commands DEF TermSignal, TypeInv, TypeOK, SharedTypeOK
<1> QED
  BY <1>1, <1>2 DEF TermSignal, Stages, mainVars, clientVars, configVars, captureVars, procVars, sessionVars,
     TypeInv, TypeOK, MainTypeOK, SharedTypeOK, ThreadTypeOK,
     AudioQueuesOK, OtherQueuesOK, SessionOK

LEMMA MainIdleExitType == TypeInv /\ MainIdleExit => TypeInv'
  BY DEF MainIdleExit, Stages, mainVars, clientVars, configVars, captureVars, procVars, sessionVars,
     TypeInv, TypeOK, MainTypeOK, SharedTypeOK, ThreadTypeOK,
     AudioQueuesOK, OtherQueuesOK, SessionOK

LEMMA StartPanicsType == TypeInv /\ StartPanics => TypeInv'
  BY DEF StartPanics, Stages, ProcessingStates, mainVars, clientVars, configVars, captureVars, procVars, sessionVars,
     TypeInv, TypeOK, MainTypeOK, SharedTypeOK, ThreadTypeOK,
     AudioQueuesOK, OtherQueuesOK, SessionOK

LEMMA HandlePlaybackDoneType == TypeInv /\ HandlePlaybackDone => TypeInv'
  BY DEF HandlePlaybackDone, ReceiveStatus, Stages, Endings, Option, StopReasons, mainVars, clientVars, configVars, captureVars, procVars, sessionVars,
     TypeInv, TypeOK, MainTypeOK, SharedTypeOK, ThreadTypeOK,
     AudioQueuesOK, OtherQueuesOK, SessionOK

LEMMA HandleCaptureDoneType == TypeInv /\ HandleCaptureDone => TypeInv'
  BY DEF HandleCaptureDone, ReceiveStatus, mainVars, clientVars, configVars, captureVars, procVars, sessionVars,
     TypeInv, TypeOK, MainTypeOK, SharedTypeOK, ThreadTypeOK,
     AudioQueuesOK, OtherQueuesOK, SessionOK

LEMMA FinishSessionType == TypeInv /\ FinishSession => TypeInv'
  BY DEF FinishSession, NextActive, NextPrevious, Stages, Option, ProcessingStates, mainVars, clientVars, configVars, captureVars, procVars, sessionVars,
     TypeInv, TypeOK, MainTypeOK, SharedTypeOK, ThreadTypeOK,
     AudioQueuesOK, OtherQueuesOK, SessionOK

LEMMA HandleConfigChangedType ==
  ASSUME TypeInv, NEW new \in Configs, HandleConfigChanged(new) PROVE TypeInv'
<1>1. ctrl' \in Seq(ControllerMessages) /\ Len(ctrl') <= CtrlCapacity
  BY Queues, BoundsAssumption DEF HandleConfigChanged, TypeInv, TypeOK, SharedTypeOK
<1>2. cmdQ' \in [Slots -> Seq({"Exit"})]
  <2>1. UNCHANGED cmdQ \/ (SendExitToCapture /\ cur \in Slots)
    BY DEF HandleConfigChanged, TypeInv, SessionOK
  <2> QED
    BY <2>1, SendExitType DEF TypeInv, TypeOK, OtherQueuesOK
<1>3. pipeconfQ' \in [Slots -> Seq(PipelineMessages)]
  <2>1. cur \in Slots /\ activeConf \in Configs
    BY DEF HandleConfigChanged, TypeInv, SessionOK
  <2> DEFINE msg == [change |-> config_diff(activeConf, new), conf |-> new]
  <2>2. msg \in PipelineMessages
    BY <2>1 DEF PipelineMessages
  <2>3. \/ pipeconfQ' = pipeconfQ
        \/ pipeconfQ' = [pipeconfQ EXCEPT ![cur] = Append(@, msg)]
    BY DEF HandleConfigChanged
  <2>4. Append(pipeconfQ[cur], msg) \in Seq(PipelineMessages)
    BY <2>1, <2>2, Queues DEF TypeInv, TypeOK, OtherQueuesOK
  <2> HIDE DEF msg
  <2> QED
    BY <2>1, <2>3, <2>4 DEF TypeInv, TypeOK, OtherQueuesOK
<1> QED
  BY <1>1, <1>2, <1>3 DEF HandleConfigChanged, Stages, Endings, Option, mainVars, clientVars, configVars, captureVars, procVars, sessionVars,
     TypeInv, TypeOK, MainTypeOK, SharedTypeOK, ThreadTypeOK,
     AudioQueuesOK, OtherQueuesOK, SessionOK

LEMMA BarrierReleaseType == TypeInv /\ BarrierRelease => TypeInv'
<1> SUFFICES ASSUME TypeInv, BarrierRelease PROVE TypeInv'
  OBVIOUS
<1>1. ThreadTypeOK'
  BY DEF BarrierRelease, TypeInv, TypeOK, ThreadTypeOK, CaptureSteps, PlaybackSteps, ProcSteps
<1>2. cmdQ' \in [Slots -> Seq({"Exit"})]
  BY DEF BarrierRelease, TypeInv, TypeOK, OtherQueuesOK, SessionOK
<1>3. stage' \in {"running", "joining"} /\ stopReason' \in StopReasons
  BY DEF BarrierRelease, AfterBarrier, TypeInv, TypeOK, SharedTypeOK, SessionOK, StopReasons
<1>4. SessionOK'
  BY <1>3 DEF BarrierRelease, AfterBarrier, TypeInv, TypeOK, SessionOK, ThreadTypeOK, DeviceFaults, PlaybackFaults, CaptureFaults
<1> QED
  BY <1>1, <1>2, <1>3, <1>4 DEF BarrierRelease, Stages, mainVars, clientVars, configVars, captureVars, procVars, sessionVars,
     TypeInv, TypeOK, MainTypeOK, SharedTypeOK, ThreadTypeOK,
     AudioQueuesOK, OtherQueuesOK, SessionOK


-----------------------------------------------------------------------------
\* What a step of one of the threads of a session has to establish.
LEMMA ThreadStepType ==
  ASSUME TypeInv, UNCHANGED <<mainVars, clientVars, configVars, ctrl, stopReason>>,
         captureState' \in ProcessingStates,
         ThreadTypeOK', AudioQueuesOK', OtherQueuesOK',
         \A s \in Slots : proc'[s] = "send" => procMsg'[s] \in AudioMessages
  PROVE  TypeInv'
<1>1. MainTypeOK' /\ SharedTypeOK'
  BY DEF TypeInv, TypeOK, MainTypeOK, SharedTypeOK, mainVars, clientVars, configVars
<1>2. SessionOK'
  BY DEF TypeInv, SessionOK, mainVars, clientVars, configVars
<1> QED
  BY <1>1, <1>2 DEF TypeInv, TypeOK

LEMMA ReportType ==
  ASSUME TypeInv, NEW s \in Slots, NEW msg \in StatusMessages, Report(s, msg)
  PROVE  statusQ' \in [Slots -> Seq(StatusMessages)]
<1>1. Append(statusQ[s], msg) \in Seq(StatusMessages)
  BY Queues DEF TypeInv, TypeOK, OtherQueuesOK
<1> QED
  BY <1>1 DEF Report, TypeInv, TypeOK, OtherQueuesOK

LEMMA ReportFaultType ==
  ASSUME TypeInv, NEW s \in Slots, NEW msg \in DeviceFaults, ReportFault(s, msg)
  PROVE  /\ statusQ' \in [Slots -> Seq(StatusMessages)]
         /\ reported' \subseteq DeviceFaults
<1>1. msg \in StatusMessages /\ Report(s, msg)
  BY DEF ReportFault, StatusMessages
<1>2. statusQ' \in [Slots -> Seq(StatusMessages)]
  BY <1>1, ReportType
<1> QED
  BY <1>2 DEF ReportFault, TypeInv, TypeOK, OtherQueuesOK

LEMMA AudioSendType ==
  ASSUME TypeInv, NEW s \in Slots, UNCHANGED pbQ,
         cap[s] \in {"sendAudio", "sendPause", "sendStalled", "flush", "sendEndDone",
                     "sendEndFormat"},
         AudioSent(s) \/ AudioFails(s)
  PROVE  AudioQueuesOK'
<1>1. CASE AudioFails(s)
  BY <1>1 DEF AudioFails, TypeInv, TypeOK, AudioQueuesOK
<1>2. CASE AudioSent(s)
  <2>1. Outgoing[cap[s]] \in AudioMessages
    BY DEF Outgoing, AudioMessages
  <2>2. /\ Append(capQ[s], Outgoing[cap[s]]) \in Seq(AudioMessages)
        /\ Len(Append(capQ[s], Outgoing[cap[s]])) <= QueueLimit
    BY <1>2, <2>1, Queues, BoundsAssumption
       DEF AudioSent, HasRoom, TypeInv, TypeOK, AudioQueuesOK
  <2> QED
    BY <1>2, <2>2 DEF AudioSent, TypeInv, TypeOK, AudioQueuesOK
<1> QED
  BY <1>1, <1>2

LEMMA AudioReceiveType ==
  ASSUME AudioQueuesOK, NEW s \in Slots
  PROVE  /\ capQ[s] # <<>> => /\ Head(capQ[s]) \in AudioMessages
                              /\ Tail(capQ[s]) \in Seq(AudioMessages)
                              /\ Len(Tail(capQ[s])) <= QueueLimit
         /\ pbQ[s] # <<>> => /\ Tail(pbQ[s]) \in Seq(AudioMessages)
                             /\ Len(Tail(pbQ[s])) <= QueueLimit
<1>1. /\ capQ[s] \in Seq(AudioMessages) /\ Len(capQ[s]) <= QueueLimit
      /\ pbQ[s] \in Seq(AudioMessages) /\ Len(pbQ[s]) <= QueueLimit
  BY DEF AudioQueuesOK
<1> QED
  BY <1>1, Queues, BoundsAssumption

LEMMA EndProcessingType ==
  ASSUME TypeInv, NEW s \in Slots, EndProcessing(s)
  PROVE  /\ capQ' \in [Slots -> Seq(AudioMessages)]
         /\ \A t \in Slots : Len(capQ'[t]) <= QueueLimit
         /\ pipeconfQ' \in [Slots -> Seq(PipelineMessages)]
<1>1. capQ' \in [Slots -> Seq(AudioMessages)]
  BY DEF EndProcessing, TypeInv, TypeOK, AudioQueuesOK
<1>2. \A t \in Slots : Len(capQ'[t]) <= QueueLimit
  BY BoundsAssumption DEF EndProcessing, TypeInv, TypeOK, AudioQueuesOK
<1>3. pipeconfQ' \in [Slots -> Seq(PipelineMessages)]
  BY DEF EndProcessing, TypeInv, TypeOK, OtherQueuesOK
<1> QED
  BY <1>1, <1>2, <1>3

LEMMA BuildPipelineType ==
  ASSUME TypeInv, NEW s \in Slots, BuildPipeline(s) PROVE TypeInv'
<1>1. ThreadTypeOK' /\ captureState' \in ProcessingStates
  BY AudioReceiveType DEF BuildPipeline, EndProcessing, ProcSteps, TypeInv, TypeOK, ThreadTypeOK, SharedTypeOK, unchangedByProcessing, captureVars, procVars
<1>2. UNCHANGED <<capQ, pipeconfQ>> \/ EndProcessing(s)
  BY DEF BuildPipeline
<1>3. AudioQueuesOK'
  BY <1>2, EndProcessingType DEF BuildPipeline, TypeInv, TypeOK, AudioQueuesOK
<1>5. OtherQueuesOK'
  BY <1>2, EndProcessingType
     DEF BuildPipeline, TypeInv, TypeOK, OtherQueuesOK, unchangedByProcessing
<1>4. \A t \in Slots : proc'[t] = "send" => procMsg'[t] \in AudioMessages
  BY AudioReceiveType DEF BuildPipeline, EndProcessing, ProcSteps, TypeInv, TypeOK, ThreadTypeOK, SessionOK, unchangedByProcessing, procVars
<1> QED
  BY <1>1, <1>3, <1>4, <1>5, ThreadStepType DEF BuildPipeline, unchangedByProcessing, procVars

LEMMA ReceiveAudioType ==
  ASSUME TypeInv, NEW s \in Slots, ReceiveAudio(s) PROVE TypeInv'
<1>1. ThreadTypeOK' /\ captureState' \in ProcessingStates
  BY AudioReceiveType DEF ReceiveAudio, ProcSteps, AudioMessages, TypeInv, TypeOK, ThreadTypeOK, SharedTypeOK, unchangedByProcessing, captureVars, procVars
<1>2. AudioQueuesOK'
  BY AudioReceiveType DEF ReceiveAudio, TypeInv, TypeOK, AudioQueuesOK
<1>3. OtherQueuesOK'
  BY DEF ReceiveAudio, TypeInv, TypeOK, OtherQueuesOK, unchangedByProcessing
<1>4. \A t \in Slots : proc'[t] = "send" => procMsg'[t] \in AudioMessages
  BY AudioReceiveType DEF ReceiveAudio, ProcSteps, AudioMessages, TypeInv, TypeOK, ThreadTypeOK, SessionOK, unchangedByProcessing, procVars
<1> QED
  BY <1>1, <1>2, <1>3, <1>4, ThreadStepType DEF ReceiveAudio, unchangedByProcessing, procVars

LEMMA ForwardAudioType ==
  ASSUME TypeInv, NEW s \in Slots, ForwardAudio(s) PROVE TypeInv'
<1>1. ThreadTypeOK' /\ captureState' \in ProcessingStates
  BY AudioReceiveType DEF ForwardAudio, EndProcessing, SendFails, TakeChange, ProcSteps, TypeInv, TypeOK, ThreadTypeOK, SharedTypeOK, unchangedByProcessing, captureVars, procVars
<1>2. UNCHANGED capQ \/ EndProcessing(s)
  BY DEF ForwardAudio, SendFails, TakeChange
<1>3. /\ pbQ' \in [Slots -> Seq(AudioMessages)]
      /\ \A t \in Slots : Len(pbQ'[t]) <= QueueLimit
  <2>1. CASE UNCHANGED pbQ
    BY <2>1 DEF TypeInv, TypeOK, AudioQueuesOK
  <2>2. CASE HasRoom(pbQ[s]) /\ pbQ' = [pbQ EXCEPT ![s] = Append(@, procMsg[s])]
    <3>1. procMsg[s] \in AudioMessages
      BY DEF ForwardAudio, TypeInv, SessionOK
    <3>2. /\ Append(pbQ[s], procMsg[s]) \in Seq(AudioMessages)
          /\ Len(Append(pbQ[s], procMsg[s])) <= QueueLimit
      BY <2>2, <3>1, Queues, BoundsAssumption DEF HasRoom, TypeInv, TypeOK, AudioQueuesOK
    <3> QED
      BY <2>2, <3>2 DEF TypeInv, TypeOK, AudioQueuesOK
  <2> QED
    BY <2>1, <2>2 DEF ForwardAudio, SendFails
<1>5. AudioQueuesOK'
  BY <1>2, <1>3, EndProcessingType DEF TypeInv, TypeOK, AudioQueuesOK
<1>6. pipeconfQ' \in [Slots -> Seq(PipelineMessages)]
  <2>1. \/ UNCHANGED pipeconfQ \/ EndProcessing(s)
        \/ pipeconfQ[s] # <<>> /\ pipeconfQ' = [pipeconfQ EXCEPT ![s] = Tail(@)]
    BY DEF ForwardAudio, SendFails, TakeChange
  <2>2. pipeconfQ[s] # <<>> => Tail(pipeconfQ[s]) \in Seq(PipelineMessages)
    BY Queues DEF TypeInv, TypeOK, OtherQueuesOK
  <2> QED
    BY <2>1, <2>2, EndProcessingType DEF TypeInv, TypeOK, OtherQueuesOK
<1>7. OtherQueuesOK'
  BY <1>6 DEF ForwardAudio, TypeInv, TypeOK, OtherQueuesOK, unchangedByProcessing
<1>4. \A t \in Slots : proc'[t] = "send" => procMsg'[t] \in AudioMessages
  BY AudioReceiveType DEF ForwardAudio, EndProcessing, SendFails, TakeChange, ProcSteps, TypeInv, TypeOK, ThreadTypeOK, SessionOK, unchangedByProcessing, procVars
<1> QED
  BY <1>1, <1>4, <1>5, <1>7, ThreadStepType DEF ForwardAudio, unchangedByProcessing, procVars

LEMMA OpenPlaybackType ==
  ASSUME TypeInv, NEW s \in Slots, OpenPlayback(s) PROVE TypeInv'
<1>1. ThreadTypeOK' /\ captureState' \in ProcessingStates
  BY DEF OpenPlayback, PlaybackSteps, TypeInv, TypeOK, ThreadTypeOK, SharedTypeOK, unchangedByDevices, captureVars, procVars
<1>2. AudioQueuesOK'
  BY DEF OpenPlayback, TypeInv, TypeOK, AudioQueuesOK
<1>3. OtherQueuesOK'
  BY ReportType, ReportFaultType DEF OpenPlayback, Report, ReportFault, StatusMessages, DeviceFaults, CaptureFaults, PlaybackFaults, TypeInv, TypeOK, OtherQueuesOK, unchangedByDevices
<1>4. \A t \in Slots : proc'[t] = "send" => procMsg'[t] \in AudioMessages
  BY DEF OpenPlayback, PlaybackSteps, TypeInv, TypeOK, ThreadTypeOK, SessionOK, unchangedByDevices, procVars
<1> QED
  BY <1>1, <1>2, <1>3, <1>4, ThreadStepType DEF OpenPlayback, unchangedByDevices, procVars

LEMMA PlayChunkType ==
  ASSUME TypeInv, NEW s \in Slots, PlayChunk(s) PROVE TypeInv'
<1>1. ThreadTypeOK' /\ captureState' \in ProcessingStates
  BY DEF PlayChunk, TypeInv, TypeOK, ThreadTypeOK, SharedTypeOK, unchangedByDevices, captureVars, procVars
<1>2. AudioQueuesOK'
  BY AudioReceiveType DEF PlayChunk, TypeInv, TypeOK, AudioQueuesOK
<1>3. OtherQueuesOK'
  BY ReportType, ReportFaultType DEF PlayChunk, Report, ReportFault, StatusMessages, DeviceFaults, CaptureFaults, PlaybackFaults, TypeInv, TypeOK, OtherQueuesOK, unchangedByDevices
<1>4. \A t \in Slots : proc'[t] = "send" => procMsg'[t] \in AudioMessages
  BY DEF PlayChunk, TypeInv, TypeOK, ThreadTypeOK, SessionOK, unchangedByDevices, procVars
<1> QED
  BY <1>1, <1>2, <1>3, <1>4, ThreadStepType DEF PlayChunk, unchangedByDevices, procVars

LEMMA FinishPlaybackType ==
  ASSUME TypeInv, NEW s \in Slots, FinishPlayback(s) PROVE TypeInv'
<1>1. ThreadTypeOK' /\ captureState' \in ProcessingStates
  BY DEF FinishPlayback, PlaybackSteps, TypeInv, TypeOK, ThreadTypeOK, SharedTypeOK, unchangedByDevices, captureVars, procVars
<1>2. AudioQueuesOK'
  BY AudioReceiveType DEF FinishPlayback, TypeInv, TypeOK, AudioQueuesOK
<1>3. OtherQueuesOK'
  BY ReportType, ReportFaultType DEF FinishPlayback, Report, ReportFault, StatusMessages, DeviceFaults, CaptureFaults, PlaybackFaults, TypeInv, TypeOK, OtherQueuesOK, unchangedByDevices
<1>4. \A t \in Slots : proc'[t] = "send" => procMsg'[t] \in AudioMessages
  BY DEF FinishPlayback, PlaybackSteps, TypeInv, TypeOK, ThreadTypeOK, SessionOK, unchangedByDevices, procVars
<1> QED
  BY <1>1, <1>2, <1>3, <1>4, ThreadStepType DEF FinishPlayback, unchangedByDevices, procVars

LEMMA EndPlaybackType ==
  ASSUME TypeInv, NEW s \in Slots, EndPlayback(s) PROVE TypeInv'
<1>1. ThreadTypeOK' /\ captureState' \in ProcessingStates
  BY DEF EndPlayback, PlaybackSteps, TypeInv, TypeOK, ThreadTypeOK, SharedTypeOK, unchangedByDevices, captureVars, procVars
<1>2. AudioQueuesOK'
  BY BoundsAssumption DEF EndPlayback, TypeInv, TypeOK, AudioQueuesOK
<1>3. OtherQueuesOK'
  BY DEF EndPlayback, TypeInv, TypeOK, OtherQueuesOK, unchangedByDevices
<1>4. \A t \in Slots : proc'[t] = "send" => procMsg'[t] \in AudioMessages
  BY DEF EndPlayback, TypeInv, TypeOK, ThreadTypeOK, SessionOK, unchangedByDevices, procVars
<1> QED
  BY <1>1, <1>2, <1>3, <1>4, ThreadStepType DEF EndPlayback, unchangedByDevices, procVars

LEMMA OpenCaptureType ==
  ASSUME TypeInv, NEW s \in Slots, OpenCapture(s) PROVE TypeInv'
<1>1. ThreadTypeOK' /\ captureState' \in ProcessingStates
  BY DEF OpenCapture, CaptureSteps, TypeInv, TypeOK, ThreadTypeOK, SharedTypeOK, unchangedByDevices, captureVars, procVars
<1>2. AudioQueuesOK'
  BY DEF OpenCapture, TypeInv, TypeOK, AudioQueuesOK
<1>3. OtherQueuesOK'
  BY ReportType, ReportFaultType DEF OpenCapture, Report, ReportFault, StatusMessages, DeviceFaults, CaptureFaults, PlaybackFaults, TypeInv, TypeOK, OtherQueuesOK, unchangedByDevices
<1>4. \A t \in Slots : proc'[t] = "send" => procMsg'[t] \in AudioMessages
  BY DEF OpenCapture, CaptureSteps, TypeInv, TypeOK, ThreadTypeOK, SessionOK, unchangedByDevices, procVars
<1> QED
  BY <1>1, <1>2, <1>3, <1>4, ThreadStepType DEF OpenCapture, unchangedByDevices, procVars

LEMMA PollCommandType ==
  ASSUME TypeInv, NEW s \in Slots, PollCommand(s) PROVE TypeInv'
<1>1. ThreadTypeOK' /\ captureState' \in ProcessingStates
  BY DEF PollCommand, CaptureSteps, TypeInv, TypeOK, ThreadTypeOK, SharedTypeOK, unchangedByDevices, captureVars, procVars
<1>2. AudioQueuesOK'
  BY DEF PollCommand, TypeInv, TypeOK, AudioQueuesOK
<1>3. OtherQueuesOK'
  <2>1. \/ UNCHANGED cmdQ
        \/ cmdQ[s] # <<>> /\ cmdQ' = [cmdQ EXCEPT ![s] = Tail(@)]
    BY DEF PollCommand
  <2>2. cmdQ[s] # <<>> => Tail(cmdQ[s]) \in Seq({"Exit"})
    BY Queues DEF TypeInv, TypeOK, OtherQueuesOK
  <2>3. cmdQ' \in [Slots -> Seq({"Exit"})]
    BY <2>1, <2>2 DEF TypeInv, TypeOK, OtherQueuesOK
  <2> QED
    BY <2>3 DEF PollCommand, TypeInv, TypeOK, OtherQueuesOK, unchangedByDevices
<1>4. \A t \in Slots : proc'[t] = "send" => procMsg'[t] \in AudioMessages
  BY DEF PollCommand, CaptureSteps, TypeInv, TypeOK, ThreadTypeOK, SessionOK, unchangedByDevices, procVars
<1> QED
  BY <1>1, <1>2, <1>3, <1>4, ThreadStepType DEF PollCommand, unchangedByDevices, procVars

LEMMA ReadCompleteType ==
  ASSUME TypeInv, NEW s \in Slots, ReadComplete(s) PROVE TypeInv'
<1>1. ThreadTypeOK' /\ captureState' \in ProcessingStates
  BY DEF ReadComplete, CaptureSteps, ProcessingStates, AfterRead, SignalStates, TypeInv, TypeOK, ThreadTypeOK, SharedTypeOK, unchangedByDevices, captureVars, procVars
<1>2. AudioQueuesOK'
  BY DEF ReadComplete, TypeInv, TypeOK, AudioQueuesOK
<1>3. OtherQueuesOK'
  BY DEF ReadComplete, TypeInv, TypeOK, OtherQueuesOK, unchangedByDevices
<1>4. \A t \in Slots : proc'[t] = "send" => procMsg'[t] \in AudioMessages
  BY DEF ReadComplete, CaptureSteps, ProcessingStates, AfterRead, SignalStates, TypeInv, TypeOK, ThreadTypeOK, SessionOK, unchangedByDevices, procVars
<1> QED
  BY <1>1, <1>2, <1>3, <1>4, ThreadStepType DEF ReadComplete, unchangedByDevices, procVars

LEMMA ReadPartialType ==
  ASSUME TypeInv, NEW s \in Slots, ReadPartial(s) PROVE TypeInv'
<1>1. ThreadTypeOK' /\ captureState' \in ProcessingStates
  BY DEF ReadPartial, CaptureSteps, ProcessingStates, AfterRead, SignalStates, TypeInv, TypeOK, ThreadTypeOK, SharedTypeOK, unchangedByDevices, captureVars, procVars
<1>2. AudioQueuesOK'
  BY DEF ReadPartial, TypeInv, TypeOK, AudioQueuesOK
<1>3. OtherQueuesOK'
  BY DEF ReadPartial, TypeInv, TypeOK, OtherQueuesOK, unchangedByDevices
<1>4. \A t \in Slots : proc'[t] = "send" => procMsg'[t] \in AudioMessages
  BY DEF ReadPartial, CaptureSteps, ProcessingStates, AfterRead, SignalStates, TypeInv, TypeOK, ThreadTypeOK, SessionOK, unchangedByDevices, procVars
<1> QED
  BY <1>1, <1>2, <1>3, <1>4, ThreadStepType DEF ReadPartial, unchangedByDevices, procVars

LEMMA ReadTimeoutType ==
  ASSUME TypeInv, NEW s \in Slots, ReadTimeout(s) PROVE TypeInv'
<1>1. ThreadTypeOK' /\ captureState' \in ProcessingStates
  BY DEF ReadTimeout, CaptureSteps, ProcessingStates, AfterRead, SignalStates, TypeInv, TypeOK, ThreadTypeOK, SharedTypeOK, unchangedByDevices, captureVars, procVars
<1>2. AudioQueuesOK'
  BY DEF ReadTimeout, TypeInv, TypeOK, AudioQueuesOK
<1>3. OtherQueuesOK'
  BY DEF ReadTimeout, TypeInv, TypeOK, OtherQueuesOK, unchangedByDevices
<1>4. \A t \in Slots : proc'[t] = "send" => procMsg'[t] \in AudioMessages
  BY DEF ReadTimeout, CaptureSteps, ProcessingStates, AfterRead, SignalStates, TypeInv, TypeOK, ThreadTypeOK, SessionOK, unchangedByDevices, procVars
<1> QED
  BY <1>1, <1>2, <1>3, <1>4, ThreadStepType DEF ReadTimeout, unchangedByDevices, procVars

LEMMA ReadEndOfFileType ==
  ASSUME TypeInv, NEW s \in Slots, ReadEndOfFile(s) PROVE TypeInv'
<1>1. ThreadTypeOK' /\ captureState' \in ProcessingStates
  BY DEF ReadEndOfFile, CaptureSteps, ProcessingStates, AfterRead, SignalStates, TypeInv, TypeOK, ThreadTypeOK, SharedTypeOK, unchangedByDevices, captureVars, procVars
<1>2. AudioQueuesOK'
  BY DEF ReadEndOfFile, TypeInv, TypeOK, AudioQueuesOK
<1>3. OtherQueuesOK'
  BY DEF ReadEndOfFile, TypeInv, TypeOK, OtherQueuesOK, unchangedByDevices
<1>4. \A t \in Slots : proc'[t] = "send" => procMsg'[t] \in AudioMessages
  BY DEF ReadEndOfFile, CaptureSteps, ProcessingStates, AfterRead, SignalStates, TypeInv, TypeOK, ThreadTypeOK, SessionOK, unchangedByDevices, procVars
<1> QED
  BY <1>1, <1>2, <1>3, <1>4, ThreadStepType DEF ReadEndOfFile, unchangedByDevices, procVars

LEMMA ReadErrorType ==
  ASSUME TypeInv, NEW s \in Slots, ReadError(s) PROVE TypeInv'
<1>1. ThreadTypeOK' /\ captureState' \in ProcessingStates
  BY DEF ReadError, CaptureSteps, ProcessingStates, AfterRead, SignalStates, TypeInv, TypeOK, ThreadTypeOK, SharedTypeOK, unchangedByDevices, captureVars, procVars
<1>2. AudioQueuesOK'
  BY DEF ReadError, TypeInv, TypeOK, AudioQueuesOK
<1>3. OtherQueuesOK'
  BY ReportFaultType DEF ReadError, Report, ReportFault, StatusMessages, DeviceFaults, CaptureFaults, PlaybackFaults, TypeInv, TypeOK, OtherQueuesOK, unchangedByDevices
<1>4. \A t \in Slots : proc'[t] = "send" => procMsg'[t] \in AudioMessages
  BY DEF ReadError, CaptureSteps, ProcessingStates, AfterRead, SignalStates, TypeInv, TypeOK, ThreadTypeOK, SessionOK, unchangedByDevices, procVars
<1> QED
  BY <1>1, <1>2, <1>3, <1>4, ThreadStepType DEF ReadError, unchangedByDevices, procVars

LEMMA RateChangeType ==
  ASSUME TypeInv, NEW s \in Slots, RateChange(s) PROVE TypeInv'
<1>1. ThreadTypeOK' /\ captureState' \in ProcessingStates
  BY DEF RateChange, CaptureSteps, ProcessingStates, AfterRead, SignalStates, TypeInv, TypeOK, ThreadTypeOK, SharedTypeOK, unchangedByDevices, captureVars, procVars
<1>2. AudioQueuesOK'
  BY DEF RateChange, TypeInv, TypeOK, AudioQueuesOK
<1>3. OtherQueuesOK'
  BY DEF RateChange, TypeInv, TypeOK, OtherQueuesOK, unchangedByDevices
<1>4. \A t \in Slots : proc'[t] = "send" => procMsg'[t] \in AudioMessages
  BY DEF RateChange, CaptureSteps, ProcessingStates, AfterRead, SignalStates, TypeInv, TypeOK, ThreadTypeOK, SessionOK, unchangedByDevices, procVars
<1> QED
  BY <1>1, <1>2, <1>3, <1>4, ThreadStepType DEF RateChange, unchangedByDevices, procVars

LEMMA SendStalledType ==
  ASSUME TypeInv, NEW s \in Slots, SendStalled(s) PROVE TypeInv'
<1>1. ThreadTypeOK' /\ captureState' \in ProcessingStates
  BY DEF SendStalled, CaptureSteps, ProcessingStates, TypeInv, TypeOK, ThreadTypeOK, SharedTypeOK, unchangedByDevices, captureVars, procVars
<1>2. AudioQueuesOK'
  BY AudioSendType DEF SendStalled, TypeInv, TypeOK, AudioQueuesOK
<1>3. OtherQueuesOK'
  BY DEF SendStalled, TypeInv, TypeOK, OtherQueuesOK, unchangedByDevices
<1>4. \A t \in Slots : proc'[t] = "send" => procMsg'[t] \in AudioMessages
  BY DEF SendStalled, CaptureSteps, TypeInv, TypeOK, ThreadTypeOK, SessionOK, unchangedByDevices, procVars
<1> QED
  BY <1>1, <1>2, <1>3, <1>4, ThreadStepType DEF SendStalled, unchangedByDevices, procVars

LEMMA SendChunkType ==
  ASSUME TypeInv, NEW s \in Slots, SendChunk(s) PROVE TypeInv'
<1>1. ThreadTypeOK' /\ captureState' \in ProcessingStates
  BY DEF SendChunk, CaptureSteps, TypeInv, TypeOK, ThreadTypeOK, SharedTypeOK, unchangedByDevices, captureVars, procVars
<1>2. AudioQueuesOK'
  BY AudioSendType DEF SendChunk, TypeInv, TypeOK, AudioQueuesOK
<1>3. OtherQueuesOK'
  BY DEF SendChunk, TypeInv, TypeOK, OtherQueuesOK, unchangedByDevices
<1>4. \A t \in Slots : proc'[t] = "send" => procMsg'[t] \in AudioMessages
  BY DEF SendChunk, CaptureSteps, TypeInv, TypeOK, ThreadTypeOK, SessionOK, unchangedByDevices, procVars
<1> QED
  BY <1>1, <1>2, <1>3, <1>4, ThreadStepType DEF SendChunk, unchangedByDevices, procVars

LEMMA SendEndOfStreamType ==
  ASSUME TypeInv, NEW s \in Slots, SendEndOfStream(s) PROVE TypeInv'
<1>1. ThreadTypeOK' /\ captureState' \in ProcessingStates
  BY DEF SendEndOfStream, CaptureSteps, AfterEndOfStream, TypeInv, TypeOK, ThreadTypeOK, SharedTypeOK, unchangedByDevices, captureVars, procVars
<1>2. AudioQueuesOK'
  BY AudioSendType DEF SendEndOfStream, TypeInv, TypeOK, AudioQueuesOK
<1>3. OtherQueuesOK'
  BY DEF SendEndOfStream, TypeInv, TypeOK, OtherQueuesOK, unchangedByDevices
<1>4. \A t \in Slots : proc'[t] = "send" => procMsg'[t] \in AudioMessages
  BY DEF SendEndOfStream, CaptureSteps, AfterEndOfStream, TypeInv, TypeOK, ThreadTypeOK, SessionOK, unchangedByDevices, procVars
<1> QED
  BY <1>1, <1>2, <1>3, <1>4, ThreadStepType DEF SendEndOfStream, unchangedByDevices, procVars

LEMMA ReportEndType ==
  ASSUME TypeInv, NEW s \in Slots, ReportEnd(s) PROVE TypeInv'
<1>1. ThreadTypeOK' /\ captureState' \in ProcessingStates
  BY DEF ReportEnd, CaptureSteps, TypeInv, TypeOK, ThreadTypeOK, SharedTypeOK, unchangedByDevices, captureVars, procVars
<1>2. AudioQueuesOK'
  BY DEF ReportEnd, TypeInv, TypeOK, AudioQueuesOK
<1>3. OtherQueuesOK'
  BY ReportType, ReportFaultType DEF ReportEnd, Report, ReportFault, StatusMessages, DeviceFaults, CaptureFaults, PlaybackFaults, TypeInv, TypeOK, OtherQueuesOK, unchangedByDevices
<1>4. \A t \in Slots : proc'[t] = "send" => procMsg'[t] \in AudioMessages
  BY DEF ReportEnd, CaptureSteps, TypeInv, TypeOK, ThreadTypeOK, SessionOK, unchangedByDevices, procVars
<1> QED
  BY <1>1, <1>2, <1>3, <1>4, ThreadStepType DEF ReportEnd, unchangedByDevices, procVars

LEMMA EndCaptureType ==
  ASSUME TypeInv, NEW s \in Slots, EndCapture(s) PROVE TypeInv'
<1>1. ThreadTypeOK' /\ captureState' \in ProcessingStates
  BY DEF EndCapture, CaptureSteps, ProcessingStates, TypeInv, TypeOK, ThreadTypeOK, SharedTypeOK, unchangedByDevices, captureVars, procVars
<1>2. AudioQueuesOK'
  BY DEF EndCapture, TypeInv, TypeOK, AudioQueuesOK
<1>3. OtherQueuesOK'
  BY DEF EndCapture, TypeInv, TypeOK, OtherQueuesOK, unchangedByDevices
<1>4. \A t \in Slots : proc'[t] = "send" => procMsg'[t] \in AudioMessages
  BY DEF EndCapture, CaptureSteps, ProcessingStates, TypeInv, TypeOK, ThreadTypeOK, SessionOK, unchangedByDevices, procVars
<1> QED
  BY <1>1, <1>2, <1>3, <1>4, ThreadStepType DEF EndCapture, unchangedByDevices, procVars

-----------------------------------------------------------------------------
\* ------------------------- The steps of the engine ------------------------

LEMMA SupervisorType == TypeInv /\ SupervisorStep => TypeInv'
  BY MainIdleExitType, MainReceiveType, StartSessionType, StartPanicsType, HandleReadyType,
     HandlePlaybackFaultType, HandleCaptureFaultType, HandlePlaybackDoneType,
     HandleCaptureDoneType, HandleConfigChangedType, HandleStopOrExitType,
     FinishSessionType
     DEF SupervisorStep

LEMMA ClientType == TypeInv /\ ClientStep => TypeInv'
  BY SendCommandType, TermSignalType DEF ClientStep

LEMMA SessionThreadType ==
  ASSUME TypeInv, NEW s \in Slots,
         CaptureThread(s) \/ PlaybackThread(s) \/ ProcessingThread(s)
  PROVE  TypeInv'
<1>1. CASE CaptureThread(s)
  BY <1>1, OpenCaptureType, PollCommandType, ReadCompleteType, ReadPartialType,
     ReadTimeoutType, ReadEndOfFileType, ReadErrorType, RateChangeType,
     SendStalledType, SendChunkType, SendEndOfStreamType, ReportEndType, EndCaptureType
     DEF CaptureThread, CaptureStep
<1>2. CASE PlaybackThread(s)
  BY <1>2, OpenPlaybackType, PlayChunkType, FinishPlaybackType, EndPlaybackType
     DEF PlaybackThread, PlaybackStep
<1>3. CASE ProcessingThread(s)
  BY <1>3, BuildPipelineType, ReceiveAudioType, ForwardAudioType
     DEF ProcessingThread, ProcessingStep
<1> QED
  BY <1>1, <1>2, <1>3

LEMMA StutterType == TypeInv /\ UNCHANGED vars => TypeInv'
  BY DEF vars, mainVars, clientVars, configVars, captureVars, procVars,
     TypeInv, TypeOK, MainTypeOK, SharedTypeOK, ThreadTypeOK, AudioQueuesOK,
     OtherQueuesOK, SessionOK

LEMMA NextTypeInv == TypeInv /\ [Next]_vars => TypeInv'
  BY SupervisorType, ClientType, BarrierReleaseType, SessionThreadType, StutterType
     DEF Next

\* The engine is type correct, and its bounded channels keep to their capacity.
THEOREM TypeCorrect == Spec => []TypeOK
<1>1. Init => TypeInv
  BY InitTypeInv
<1>2. TypeInv /\ [Next]_vars => TypeInv'
  BY NextTypeInv
<1>3. TypeInv => TypeOK
  BY DEF TypeInv
<1> QED
  BY <1>1, <1>2, <1>3, PTL DEF Spec

-----------------------------------------------------------------------------
(***************************************************************************)
(* The configurations of the engine.  No accepted one is lost, whatever    *)
(* the devices do: ConfigFollowsCommands and LastConfigWasTried.  And the  *)
(* running pipeline is the one the active configuration describes:         *)
(* PipelineMatchesActive.  The partial updates the supervisor sends are    *)
(* each relative to the configuration before, and the processing thread    *)
(* takes them one by one, in order, some time later.                       *)
(***************************************************************************)
\* -------------------------- The commands of clients -----------------------

InSession == stage \in {"starting", "barrier", "running"}

\* The last command accepted is at the end of the queue while there is one.
LastQueued == ctrl # <<>> => ctrl[Len(ctrl)] = lastCommand

Requested(conf) == lastCommand = ConfigChanged(conf)

\* Once the queue is empty the last command has reached the place where it acts.
LastCommandIn(where) ==
  CASE where = "wait" ->
         IF active = NoConfig
         THEN lastCommand.type = "ConfigChanged" => previous = lastCommand.conf
         ELSE Requested(active)
    [] where = "joining" ->
         CASE ending = "Devices"          -> Requested(nextConf)
           [] ending \in {"Stop", "Exit"} -> lastCommand.type = ending
           [] ending = "PlaybackDone"     -> Requested(previous)
           [] OTHER                       -> Requested(activeConf)
    [] OTHER -> InSession => Requested(activeConf)

\* The configuration clients read is the one the supervisor runs.
SharedIsLocal == InSession => active = activeConf

CommandInv ==
  LastQueued /\ (ctrl = <<>> => LastCommandIn(stage)) /\ SharedIsLocal


\* Where the end of a queue is once its head has been taken.
LEMMA QueueEnd ==
  ASSUME NEW M, NEW q \in Seq(M), q # <<>>
  PROVE  /\ Tail(q) = <<>> => Head(q) = q[Len(q)]
         /\ Tail(q) # <<>> => Tail(q)[Len(Tail(q))] = q[Len(q)]
<1>1. Len(q) \in Nat /\ Len(q) > 0 /\ Len(Tail(q)) = Len(q) - 1 /\ Head(q) = q[1]
  BY Queues
<1>2. ASSUME Tail(q) = <<>> PROVE Head(q) = q[Len(q)]
  <2>1. Tail(q) \in Seq(M)
    BY Queues
  <2>2. Len(Tail(q)) = 0
    BY <1>2, <2>1, EmptySeq
  <2> DEFINE n == Len(q)
             m == Len(Tail(q))
  <2>3. n \in Nat /\ m = n - 1 /\ m = 0
    BY <1>1, <2>2
  <2> HIDE DEF n, m
  <2>4. n = 1
    BY <2>3
  <2> QED
    BY <1>1, <2>4 DEF n
<1>3. ASSUME Tail(q) # <<>> PROVE Tail(q)[Len(Tail(q))] = q[Len(q)]
  <2>1. Len(Tail(q)) > 0
    BY <1>3, Queues
  <2> QED
    BY <1>1, <2>1
<1> QED
  BY <1>2, <1>3

\* What CommandInv speaks of.
commandVars == <<stage, ending, activeConf, nextConf, active, previous, ctrl, lastCommand>>

LEMMA CommandsUnchanged == CommandInv /\ UNCHANGED commandVars => CommandInv'
  BY DEF CommandInv, LastQueued, LastCommandIn, SharedIsLocal, Requested, InSession,
     commandVars

LEMMA InitCommandInv == Init => CommandInv
<1> SUFFICES ASSUME Init PROVE CommandInv
  OBVIOUS
<1>1. LastQueued
  <2>1. ASSUME NEW c \in Configs, ctrl = <<ConfigChanged(c)>>, lastCommand = ConfigChanged(c)
        PROVE  LastQueued
    <3>1. Len(ctrl) = 1 /\ ctrl[1] = ConfigChanged(c)
      BY <2>1
    <3> QED
      BY <2>1, <3>1 DEF LastQueued
  <2> QED
    BY <2>1 DEF Init, LastQueued
<1>2. ctrl = <<>> => lastCommand = NoCommand
  BY DEF Init
<1> QED
  BY <1>1, <1>2, Commands
     DEF Init, CommandInv, LastCommandIn, SharedIsLocal, InSession

\* The main loop takes a command.
LEMMA MainReceiveCommands ==
  TypeInv /\ CommandInv /\ MainReceive => CommandInv'
<1> SUFFICES ASSUME TypeInv, CommandInv, MainReceive PROVE CommandInv'
  OBVIOUS
<1>1. ctrl \in Seq(ControllerMessages) /\ ctrl # <<>> /\ Head(ctrl) \in ControllerMessages
  BY Queues DEF MainReceive, TypeInv, TypeOK, SharedTypeOK
<1>2. /\ ctrl' = <<>> => Head(ctrl) = lastCommand'
      /\ LastQueued'
  BY <1>1, QueueEnd DEF MainReceive, CommandInv, LastQueued, clientVars
<1>3. SharedIsLocal'
  BY DEF MainReceive, SharedIsLocal, InSession
<1>4. ASSUME ctrl' = <<>> PROVE LastCommandIn(stage)'
  <2>1. CASE Head(ctrl).type = "ConfigChanged"
    <3>1. active' \in Configs /\ lastCommand' = ConfigChanged(active')
      BY <1>1, <1>2, <1>4, <2>1, Commands DEF MainReceive
    <3>2. stage' = "wait" /\ active' # NoConfig
      BY <2>1, <3>1, ConfigsAssumption DEF MainReceive
    <3> QED
      BY <3>1, <3>2 DEF LastCommandIn, Requested
  <2>2. CASE Head(ctrl).type = "Stop"
    BY <1>1, <1>2, <1>4, <2>2 DEF MainReceive, LastCommandIn
  <2>3. CASE Head(ctrl).type = "Exit"
    BY <2>3 DEF MainReceive, LastCommandIn, InSession
  <2> QED
    BY <1>1, <2>1, <2>2, <2>3, Commands
<1> QED
  BY <1>2, <1>3, <1>4 DEF CommandInv

\* A session starts with the configuration that was asked for last.
LEMMA StartSessionCommands ==
  ASSUME TypeInv, CommandInv, NEW s \in Slots, StartSession(s) PROVE CommandInv'
  BY DEF StartSession, HasConfig, CommandInv, LastQueued, LastCommandIn, SharedIsLocal,
     Requested, InSession, clientVars, configVars

\* Status messages move the supervisor on, with the configuration it has.
LEMMA StatusCommands ==
  ASSUME TypeInv, CommandInv,
         \/ HandleReady \/ HandlePlaybackDone \/ HandleCaptureDone
         \/ \E msg \in PlaybackFaults : HandlePlaybackFault(msg)
         \/ \E msg \in CaptureFaults : HandleCaptureFault(msg)
         \/ BarrierRelease
  PROVE  CommandInv'
<1>1. CASE HandleReady
  BY <1>1 DEF HandleReady, ReceiveStatus, CommandInv, LastQueued, LastCommandIn, SharedIsLocal,
     Requested, InSession, clientVars, configVars
<1>2. CASE HandlePlaybackDone
  BY <1>2 DEF HandlePlaybackDone, ReceiveStatus, CommandInv, LastQueued, LastCommandIn,
     SharedIsLocal, Requested, InSession, clientVars
<1>3. CASE HandleCaptureDone
  BY <1>3, CommandsUnchanged
     DEF HandleCaptureDone, mainVars, clientVars, configVars, commandVars
<1>4. ASSUME NEW msg \in PlaybackFaults, HandlePlaybackFault(msg) PROVE CommandInv'
  BY <1>4 DEF HandlePlaybackFault, ReceiveStatus, PlaybackFaults, CommandInv, LastQueued,
     LastCommandIn, SharedIsLocal, Requested, InSession, clientVars, configVars
<1>5. ASSUME NEW msg \in CaptureFaults, HandleCaptureFault(msg) PROVE CommandInv'
  BY <1>5 DEF HandleCaptureFault, ReceiveStatus, CaptureFaults, CommandInv, LastQueued,
     LastCommandIn, SharedIsLocal, Requested, InSession, clientVars, configVars
<1>6. CASE BarrierRelease
  BY <1>6 DEF BarrierRelease, AfterBarrier, TypeInv, SessionOK, DeviceFaults, PlaybackFaults,
     CaptureFaults, CommandInv, LastQueued, LastCommandIn, SharedIsLocal, Requested,
     InSession, clientVars, configVars
<1> QED
  BY <1>1, <1>2, <1>3, <1>4, <1>5, <1>6

\* A command is taken while the session runs.
LEMMA HandleConfigChangedCommands ==
  ASSUME TypeInv, CommandInv, NEW new \in Configs, HandleConfigChanged(new)
  PROVE  CommandInv'
<1>1. ctrl \in Seq(ControllerMessages) /\ ctrl # <<>> /\ Head(ctrl) = ConfigChanged(new)
  BY DEF HandleConfigChanged, TypeInv, TypeOK, SharedTypeOK
<1>2. /\ ctrl' = <<>> => lastCommand' = ConfigChanged(new)
      /\ LastQueued'
  BY <1>1, QueueEnd DEF HandleConfigChanged, CommandInv, LastQueued, clientVars
<1>3. config_diff(activeConf, new).kind = "None" <=> activeConf = new
  BY DEF config_diff, DiffKind
<1>4. SharedIsLocal'
  BY DEF HandleConfigChanged, CommandInv, SharedIsLocal, InSession
<1>5. ASSUME ctrl' = <<>> PROVE LastCommandIn(stage)'
  <2>1. Tail(ctrl) = <<>>
    BY <1>5 DEF HandleConfigChanged
  <2>2. CASE config_diff(activeConf, new).kind = "None"
    <3>1. UNCHANGED <<stage, activeConf>> /\ stage = "running"
      BY <2>1, <2>2 DEF HandleConfigChanged, PipelineChanges
    <3> QED
      BY <1>2, <1>3, <1>5, <2>2, <3>1 DEF LastCommandIn, Requested
  <2>3. CASE config_diff(activeConf, new).kind # "None"
    <3>1. \/ stage' = "crashed"
          \/ stage' = "running" /\ activeConf' = new
          \/ stage' = "joining" /\ ending' = "Devices" /\ nextConf' = new
      BY <2>1, <2>3 DEF HandleConfigChanged
    <3> QED
      BY <1>2, <1>5, <3>1 DEF LastCommandIn, Requested, InSession
  <2> QED
    BY <2>2, <2>3
<1> QED
  BY <1>2, <1>4, <1>5 DEF CommandInv

LEMMA HandleStopOrExitCommands ==
  TypeInv /\ CommandInv /\ HandleStopOrExit => CommandInv'
<1> SUFFICES ASSUME TypeInv, CommandInv, HandleStopOrExit PROVE CommandInv'
  OBVIOUS
<1>1. ctrl \in Seq(ControllerMessages) /\ ctrl # <<>> /\ Head(ctrl) \in {Stop, Exit}
  BY DEF HandleStopOrExit, TypeInv, TypeOK, SharedTypeOK
<1>2. /\ ctrl' = <<>> => lastCommand' = Head(ctrl)
      /\ LastQueued'
  BY <1>1, QueueEnd DEF HandleStopOrExit, CommandInv, LastQueued, clientVars
<1>3. ending' = Head(ctrl).type /\ ending' \in {"Stop", "Exit"}
  BY <1>1, Commands DEF HandleStopOrExit
<1> QED
  BY <1>2, <1>3 DEF HandleStopOrExit, CommandInv, LastCommandIn, SharedIsLocal, InSession

\* run returns: what it leaves in the shared configurations is what the last
\* command asked for.
LEMMA FinishSessionCommands ==
  TypeInv /\ CommandInv /\ FinishSession => CommandInv'
<1> SUFFICES ASSUME TypeInv, CommandInv, FinishSession PROVE CommandInv'
  OBVIOUS
<1>1. LastQueued' /\ SharedIsLocal'
  BY DEF FinishSession, CommandInv, LastQueued, SharedIsLocal, InSession, clientVars
<1>2. ASSUME ctrl' = <<>> PROVE LastCommandIn(stage)'
  <2>1. LastCommandIn("joining") /\ ending # "None" /\ ending \in Endings
    BY <1>2 DEF FinishSession, CommandInv, TypeInv, SessionOK, TypeOK, MainTypeOK
  <2>2. CASE ending = "Devices"
    <3>1. stage' = "wait" /\ active' = nextConf /\ nextConf \in Configs
      BY <2>2 DEF FinishSession, NextActive, TypeInv, SessionOK
    <3>2. active' # NoConfig /\ lastCommand' = ConfigChanged(active')
      BY <2>1, <2>2, <3>1, ConfigsAssumption
         DEF FinishSession, LastCommandIn, Requested, clientVars
    <3> QED
      BY <3>1, <3>2 DEF LastCommandIn, Requested
  <2>3. CASE ending = "Exit"
    BY <2>3 DEF FinishSession, LastCommandIn, InSession
  <2>4. CASE ending = "Stop"
    <3>1. stage' = "wait" /\ active' = NoConfig /\ lastCommand'.type = "Stop"
      BY <2>1, <2>4 DEF FinishSession, NextActive, LastCommandIn, clientVars
    <3> QED
      BY <3>1 DEF LastCommandIn
  <2>5. CASE ending = "PlaybackDone"
    <3>1. /\ stage' = "wait" /\ active' = NoConfig
          /\ previous' = previous /\ lastCommand' = ConfigChanged(previous)
      BY <2>1, <2>5 DEF FinishSession, NextActive, NextPrevious, LastCommandIn, Requested,
         clientVars
    <3> QED
      BY <3>1 DEF LastCommandIn, ConfigChanged
  <2>6. CASE ending \in DeviceFaults
    <3>1. ending \notin {"Devices", "Stop", "Exit", "PlaybackDone"}
      BY <2>6 DEF DeviceFaults, PlaybackFaults, CaptureFaults
    <3>2. /\ stage' = "wait" /\ active' = NoConfig
          /\ previous' = activeConf /\ lastCommand' = ConfigChanged(activeConf)
      BY <2>1, <3>1 DEF FinishSession, NextActive, NextPrevious, LastCommandIn, Requested,
         clientVars
    <3> QED
      BY <3>2 DEF LastCommandIn, ConfigChanged
  <2> QED
    BY <2>1, <2>2, <2>3, <2>4, <2>5, <2>6 DEF Endings
<1> QED
  BY <1>1, <1>2 DEF CommandInv

\* The clients only ever add to the end of the queue.
LEMMA ClientCommands ==
  TypeInv /\ CommandInv /\ ClientStep => CommandInv'
<1> SUFFICES ASSUME TypeInv, CommandInv, ClientStep PROVE CommandInv'
  OBVIOUS
<1>1. ASSUME NEW msg \in ControllerMessages,
             ctrl' = Append(ctrl, msg), lastCommand' = msg,
             UNCHANGED <<mainVars, configVars>>
      PROVE  CommandInv'
  <2>1. ctrl' # <<>> /\ ctrl'[Len(ctrl')] = msg
    BY <1>1, Queues DEF TypeInv, TypeOK, SharedTypeOK
  <2> QED
    BY <1>1, <2>1 DEF CommandInv, LastQueued, SharedIsLocal, InSession, mainVars, configVars
<1>2. ASSUME NEW msg \in ControllerMessages, SendCommand(msg) PROVE CommandInv'
  BY <1>1, <1>2 DEF SendCommand
<1>3. CASE TermSignal
  <2>1. CASE exitRequested
    BY <1>3, <2>1 DEF TermSignal, CommandInv, LastQueued, LastCommandIn, SharedIsLocal,
       InSession
  <2>2. CASE ~exitRequested /\ Len(ctrl) < CtrlCapacity
    BY <1>1, <1>3, <2>2, Commands DEF TermSignal, mainVars, configVars
  <2>3. CASE ~exitRequested /\ ~(Len(ctrl) < CtrlCapacity)
    BY <1>3, <2>3, CommandsUnchanged DEF TermSignal, commandVars, configVars
  <2> QED
    BY <2>1, <2>2, <2>3
<1> QED
  BY <1>2, <1>3 DEF ClientStep

LEMMA SupervisorCommands ==
  TypeInv /\ CommandInv /\ SupervisorStep => CommandInv'
<1>1. CommandInv /\ (MainIdleExit \/ StartPanics) => CommandInv'
  BY DEF MainIdleExit, StartPanics, CommandInv, LastQueued, LastCommandIn, SharedIsLocal, InSession,
     clientVars, configVars
<1> QED
  BY <1>1, MainReceiveCommands, StartSessionCommands, StatusCommands,
     HandleConfigChangedCommands, HandleStopOrExitCommands, FinishSessionCommands
     DEF SupervisorStep

\* The threads of the sessions take no part in it.
LEMMA SessionThreadCommands ==
  ASSUME CommandInv, NEW s \in Slots,
         CaptureThread(s) \/ PlaybackThread(s) \/ ProcessingThread(s)
  PROVE  CommandInv'
<1>1. CASE CaptureThread(s)
  BY <1>1, CommandsUnchanged
     DEF CaptureThread, CaptureStep, OpenCapture, PollCommand, ReadComplete, ReadPartial,
     ReadTimeout, ReadEndOfFile, ReadError, RateChange, SendStalled, SendChunk, SendEndOfStream,
     ReportEnd, EndCapture, unchangedByDevices, mainVars, clientVars, configVars, commandVars
<1>2. CASE PlaybackThread(s)
  BY <1>2, CommandsUnchanged
     DEF PlaybackThread, PlaybackStep, OpenPlayback, PlayChunk, FinishPlayback, EndPlayback,
     unchangedByDevices, mainVars, clientVars, configVars, commandVars
<1>3. CASE ProcessingThread(s)
  BY <1>3, CommandsUnchanged
     DEF ProcessingThread, ProcessingStep, BuildPipeline, ReceiveAudio, ForwardAudio,
     unchangedByProcessing, mainVars, clientVars, configVars, commandVars
<1> QED
  BY <1>1, <1>2, <1>3

LEMMA NextCommandInv == TypeInv /\ CommandInv /\ [Next]_vars => CommandInv'
<1>1. CommandInv /\ UNCHANGED vars => CommandInv'
  BY CommandsUnchanged DEF vars, mainVars, clientVars, configVars, commandVars
<1> QED
  BY <1>1, SupervisorCommands, ClientCommands, StatusCommands, SessionThreadCommands
     DEF Next

LEMMA CommandInvariant == Spec => [](TypeInv /\ CommandInv)
<1>1. Init => TypeInv /\ CommandInv
  BY InitTypeInv, InitCommandInv
<1>2. TypeInv /\ CommandInv /\ [Next]_vars => (TypeInv /\ CommandInv)'
  BY NextTypeInv, NextCommandInv
<1> QED
  BY <1>1, <1>2, PTL DEF Spec

\* A session that runs with no command queued runs the last accepted configuration
\* (the supervisor loop of run and the main loop of main_process between them).
THEOREM ConfigurationFollows == Spec => []ConfigFollowsCommands
<1>1. TypeInv /\ CommandInv => ConfigFollowsCommands
  BY DEF CommandInv, LastCommandIn, SharedIsLocal, Requested, InSession,
     ConfigFollowsCommands
<1> QED
  BY <1>1, CommandInvariant, PTL

\* Between sessions the last accepted configuration is still there: about to be
\* started, or kept as the previous one.
THEOREM ConfigurationKept == Spec => []LastConfigWasTried
<1>1. TypeInv /\ CommandInv => LastConfigWasTried
  BY DEF CommandInv, LastCommandIn, Requested, ConfigChanged, LastConfigWasTried
<1> QED
  BY <1>1, CommandInvariant, PTL

-----------------------------------------------------------------------------
\* ------------------------- The pipeline and its changes -------------------

\* The changes in q lead from a pipeline built from base to one built from goal:
\* each is the difference between the configuration before it and its own.
ChangesLead(q, base, goal) ==
  /\ q = <<>> => base = goal
  /\ q # <<>> => /\ q[1].change = config_diff(base, q[1].conf)
                 /\ q[Len(q)].conf = goal
  /\ \A i \in 1..Len(q) - 1 : q[i + 1].change = config_diff(q[i].conf, q[i + 1].conf)

\* The pipeline of a slot is built from some configuration, from which the changes
\* under way lead to the configuration goal.
LeadsTo(s, goal) ==
  \E base \in Configs : /\ pipeline[s] = from_config(base)
                        /\ ChangesLead(pipeconfQ[s], base, goal)

\* They do so for every processing thread; in the session that is supervised they
\* lead to the active configuration.
PipelineInv ==
  \A s \in Slots : proc[s] # "none" =>
    \E goal \in Configs : /\ LeadsTo(s, goal)
                          /\ InSession /\ s = cur => goal = activeConf

\* Updating a pipeline by the difference of two configurations gives what building
\* it from the second one gives (config_diff and Pipeline::update_parameters).
LEMMA ApplyChangeBuilds ==
  ASSUME NEW base, NEW conf, ValidConfig(base), ValidConfig(conf)
  PROVE  ApplyChange(from_config(base),
                     [change |-> config_diff(base, conf), conf |-> conf])
           = from_config(conf)
<1> DEFINE change == config_diff(base, conf)
           pipe == from_config(base)
<1>1. CASE change.kind # "FilterParameters"
  BY <1>1 DEF ApplyChange
<1>2. CASE change.kind = "FilterParameters"
  <2>1. base.pipeline = conf.pipeline /\ base.mixers = conf.mixers
    BY <1>2 DEF config_diff, DiffKind
  <2>2. Updated(pipe.filters, conf.filters, change.filters)
          = Only(conf.filters, conf.pipeline.filters)
    BY <2>1 DEF from_config, Only, Updated, config_diff, ChangedNames, ValidConfig
  <2>3. Updated(pipe.mixers, conf.mixers, change.mixers)
          = Only(conf.mixers, conf.pipeline.mixers)
    BY <2>1 DEF from_config, Only, Updated, config_diff, ChangedNames, ValidConfig
  <2>4. Updated(pipe.processors, conf.processors, change.processors)
          = Only(conf.processors, conf.pipeline.processors)
    BY <2>1 DEF from_config, Only, Updated, config_diff, ChangedNames, ValidConfig
  <2>5. update_parameters(pipe, conf, change) = from_config(conf)
    BY <2>2, <2>3, <2>4 DEF update_parameters, from_config
  <2> QED
    BY <1>2, <2>5 DEF ApplyChange
<1> QED
  BY <1>1, <1>2

\* One more change at the end of the queue, relative to the goal so far.
LEMMA ChangeSent ==
  ASSUME NEW q \in Seq(PipelineMessages), NEW base \in Configs, NEW goal \in Configs,
         ChangesLead(q, base, goal),
         NEW msg \in PipelineMessages, msg.change = config_diff(goal, msg.conf)
  PROVE  ChangesLead(Append(q, msg), base, msg.conf)
<1> DEFINE p == Append(q, msg)
<1>1. /\ Len(q) \in Nat /\ Len(p) = Len(q) + 1 /\ p # <<>>
      /\ p[Len(p)] = msg
      /\ \A i \in 1..Len(q) : p[i] = q[i]
  BY Queues
<1>2. p[1].change = config_diff(base, p[1].conf)
  <2>1. CASE q = <<>>
    <3>1. Len(q) = 0 /\ base = goal
      BY <2>1, EmptySeq DEF ChangesLead
    <3>2. p[1] = msg
      BY <1>1, <3>1
    <3> QED
      BY <3>1, <3>2
  <2>2. CASE q # <<>>
    <3>1. Len(q) > 0
      BY <2>2, Queues
    <3>2. p[1] = q[1]
      BY <1>1, <3>1
    <3> QED
      BY <2>2, <3>2 DEF ChangesLead
  <2> QED
    BY <2>1, <2>2
<1>3. ASSUME NEW i \in 1..Len(p) - 1
      PROVE  p[i + 1].change = config_diff(p[i].conf, p[i + 1].conf)
  <2>1. CASE i < Len(q)
    <3>1. /\ i \in 1..Len(q) - 1
          /\ p[i] = q[i] /\ p[i + 1] = q[i + 1]
      BY <1>1, <2>1
    <3> QED
      BY <3>1 DEF ChangesLead
  <2>2. CASE i = Len(q)
    <3>1. Len(q) > 0 /\ p[i] = q[Len(q)] /\ p[i + 1] = msg
      BY <1>1, <2>2
    <3>2. q # <<>>
      BY <3>1, EmptySeq
    <3>3. p[i].conf = goal
      BY <3>1, <3>2 DEF ChangesLead
    <3> QED
      BY <3>1, <3>3
  <2> QED
    BY <1>1, <2>1, <2>2
<1> HIDE DEF p
<1>4. ChangesLead(p, base, msg.conf)
  BY <1>1, <1>2, <1>3 DEF ChangesLead
<1> QED
  BY <1>4 DEF p

\* The first change is taken: the rest leads on from its configuration.
LEMMA ChangeTaken ==
  ASSUME NEW q \in Seq(PipelineMessages), q # <<>>, NEW base, NEW goal,
         ChangesLead(q, base, goal)
  PROVE  ChangesLead(Tail(q), Head(q).conf, goal)
<1> DEFINE p == Tail(q)
<1>1. /\ Len(q) \in Nat /\ Len(q) > 0 /\ p \in Seq(PipelineMessages)
      /\ Len(p) = Len(q) - 1 /\ Head(q) = q[1]
      /\ \A i \in 1..Len(p) : p[i] = q[i + 1]
  BY Queues
<1>2. p = <<>> => Head(q).conf = goal
  BY QueueEnd DEF ChangesLead
<1>3. p # <<>> => p[1].change = config_diff(Head(q).conf, p[1].conf)
  <2>1. p # <<>> => Len(p) > 0
    BY <1>1, EmptySeq
  <2> SUFFICES ASSUME Len(p) > 0 PROVE p[1].change = config_diff(Head(q).conf, p[1].conf)
    BY <2>1
  <2>2. p[1] = q[2] /\ 1 \in 1..Len(q) - 1
    BY <1>1
  <2>3. q[1 + 1].change = config_diff(q[1].conf, q[1 + 1].conf)
    BY <2>2 DEF ChangesLead
  <2> QED
    BY <1>1, <2>2, <2>3
<1>4. p # <<>> => p[Len(p)].conf = goal
  BY QueueEnd DEF ChangesLead
<1>5. ASSUME NEW i \in 1..Len(p) - 1
      PROVE  p[i + 1].change = config_diff(p[i].conf, p[i + 1].conf)
  <2>1. /\ i + 1 \in 1..Len(q) - 1
        /\ p[i] = q[i + 1] /\ p[i + 1] = q[(i + 1) + 1]
    BY <1>1
  <2> QED
    BY <2>1 DEF ChangesLead
<1> HIDE DEF p
<1>6. ChangesLead(p, Head(q).conf, goal)
  BY <1>2, <1>3, <1>4, <1>5 DEF ChangesLead
<1> QED
  BY <1>6 DEF p

-----------------------------------------------------------------------------
\* Steps that neither build nor change a pipeline.
LEMMA PipelineUnchanged ==
  ASSUME PipelineInv, UNCHANGED <<pipeline, pipeconfQ>>,
         \A t \in Slots : proc[t] = "none" => proc'[t] = "none",
         InSession' => InSession /\ UNCHANGED <<cur, activeConf>>
  PROVE  PipelineInv'
  BY DEF PipelineInv, LeadsTo

LEMMA InitPipelineInv == Init => PipelineInv
  BY DEF Init, PipelineInv

\* The pipeline of a new session is built from the configuration it starts with.
LEMMA StartSessionPipeline ==
  ASSUME TypeInv, PipelineInv, NEW s \in Slots, StartSession(s) PROVE PipelineInv'
<1>1. /\ cur' = s /\ activeConf' = active /\ active \in Configs
      /\ pipeline'[s] = from_config(active) /\ pipeconfQ'[s] = <<>>
  BY DEF StartSession, HasConfig, TypeInv, TypeOK, SharedTypeOK, ThreadTypeOK,
     OtherQueuesOK, Option
<1>2. \E goal \in Configs : LeadsTo(s, goal)' /\ goal = activeConf'
  <2>1. ChangesLead(<<>>, active, active)
    BY EmptySeq DEF ChangesLead
  <2>2. ChangesLead(pipeconfQ'[s], active, active)
    BY <1>1, <2>1
  <2> QED
    BY <1>1, <2>2 DEF LeadsTo
<1>3. ASSUME NEW t \in Slots, t # s
      PROVE  UNCHANGED <<pipeline[t], pipeconfQ[t], proc[t]>>
  BY <1>3 DEF StartSession, TypeInv, TypeOK, ThreadTypeOK, OtherQueuesOK
<1>4. ASSUME NEW t \in Slots, t # s, proc'[t] # "none"
      PROVE  \E goal \in Configs : LeadsTo(t, goal)'
  BY <1>3, <1>4 DEF PipelineInv, LeadsTo
<1>5. ASSUME NEW t \in Slots, proc'[t] # "none"
      PROVE  \E goal \in Configs : LeadsTo(t, goal)' /\ (t = cur' => goal = activeConf')
  BY <1>1, <1>2, <1>4, <1>5
<1> QED
  BY <1>5 DEF PipelineInv

\* The supervisor sends the difference from its active configuration.
LEMMA HandleConfigChangedPipeline ==
  ASSUME TypeInv, PipelineInv, NEW new \in Configs, HandleConfigChanged(new)
  PROVE  PipelineInv'
<1>1. /\ cur \in Slots /\ activeConf \in Configs /\ InSession
      /\ pipeconfQ[cur] \in Seq(PipelineMessages)
      /\ UNCHANGED <<cur, proc, pipeline>>
  BY DEF HandleConfigChanged, InSession, TypeInv, TypeOK, SessionOK, OtherQueuesOK,
     sessionVars, procVars
<1>2. CASE UNCHANGED <<activeConf, pipeconfQ>>
  BY <1>1, <1>2, PipelineUnchanged
<1>3. CASE ~UNCHANGED <<activeConf, pipeconfQ>>
  <2> DEFINE msg == [change |-> config_diff(activeConf, new), conf |-> new]
  <2>1. /\ activeConf' = new
        /\ pipeconfQ' = [pipeconfQ EXCEPT ![cur] = Append(@, msg)]
    BY <1>3 DEF HandleConfigChanged
  <2>2. /\ msg \in PipelineMessages /\ msg.conf = new
        /\ msg.change = config_diff(activeConf, msg.conf)
    BY <1>1 DEF PipelineMessages
  <2> HIDE DEF msg
  <2>3. /\ pipeconfQ'[cur] = Append(pipeconfQ[cur], msg)
        /\ \A t \in Slots \ {cur} : pipeconfQ'[t] = pipeconfQ[t]
    BY <1>1, <2>1 DEF TypeInv, TypeOK, OtherQueuesOK
  <2>4. ASSUME proc[cur] # "none" PROVE LeadsTo(cur, new)'
    <3>1. LeadsTo(cur, activeConf)
      BY <1>1, <2>4 DEF PipelineInv
    <3>2. PICK base \in Configs : /\ pipeline[cur] = from_config(base)
                                  /\ ChangesLead(pipeconfQ[cur], base, activeConf)
      BY <3>1 DEF LeadsTo
    <3>3. ChangesLead(Append(pipeconfQ[cur], msg), base, new)
      BY <1>1, <2>2, <3>2, ChangeSent
    <3> QED
      BY <1>1, <2>3, <3>2, <3>3 DEF LeadsTo
  <2>5. ASSUME NEW t \in Slots \ {cur}, proc[t] # "none"
        PROVE  \E goal \in Configs : LeadsTo(t, goal)'
    BY <1>1, <2>3, <2>5 DEF PipelineInv, LeadsTo
  <2> QED
    BY <1>1, <2>1, <2>4, <2>5 DEF PipelineInv
<1> QED
  BY <1>2, <1>3

\* Taking a change replaces the pipeline by the one of the configuration that came
\* with it.
LEMMA TakeChangePipeline ==
  ASSUME TypeInv, PipelineInv, NEW s \in Slots, proc[s] # "none", pipeconfQ[s] # <<>>,
         pipeline' = [pipeline EXCEPT ![s] = ApplyChange(@, Head(pipeconfQ[s]))],
         pipeconfQ' = [pipeconfQ EXCEPT ![s] = Tail(@)],
         \A t \in Slots \ {s} : proc'[t] = proc[t],
         UNCHANGED mainVars
  PROVE  PipelineInv'
<1>1. ASSUME NEW goal \in Configs, LeadsTo(s, goal) PROVE LeadsTo(s, goal)'
  <2>1. PICK base \in Configs : /\ pipeline[s] = from_config(base)
                                /\ ChangesLead(pipeconfQ[s], base, goal)
    BY <1>1 DEF LeadsTo
  <2>2. pipeconfQ[s] \in Seq(PipelineMessages)
    BY DEF TypeInv, TypeOK, OtherQueuesOK
  <2> DEFINE msg == Head(pipeconfQ[s])
  <2>3. msg \in PipelineMessages /\ msg = pipeconfQ[s][1]
    BY <2>2, Queues
  <2>4. /\ msg.conf \in Configs /\ msg.change = config_diff(base, msg.conf)
        /\ msg = [change |-> config_diff(base, msg.conf), conf |-> msg.conf]
    BY <2>1, <2>3 DEF ChangesLead, PipelineMessages
  <2> HIDE DEF msg
  <2>5. ApplyChange(pipeline[s], msg) = from_config(msg.conf)
    BY <2>1, <2>4, ApplyChangeBuilds, ConfigsAssumption
  <2>6. /\ pipeline'[s] = ApplyChange(pipeline[s], msg)
        /\ pipeconfQ'[s] = Tail(pipeconfQ[s])
    BY DEF msg, TypeInv, TypeOK, ThreadTypeOK, OtherQueuesOK
  <2>7. ChangesLead(Tail(pipeconfQ[s]), msg.conf, goal)
    BY <2>1, <2>2, ChangeTaken DEF msg
  <2> QED
    BY <2>4, <2>5, <2>6, <2>7 DEF LeadsTo
<1>2. \A t \in Slots \ {s} : UNCHANGED <<pipeline[t], pipeconfQ[t], proc[t]>>
  BY DEF TypeInv, TypeOK, ThreadTypeOK, OtherQueuesOK
<1>3. UNCHANGED <<stage, cur, activeConf>>
  BY DEF mainVars
<1>4. ASSUME NEW t \in Slots, proc'[t] # "none"
      PROVE  \E goal \in Configs : LeadsTo(t, goal)' /\ (InSession' /\ t = cur' => goal = activeConf')
  <2>1. proc[t] # "none"
    BY <1>2, <1>4
  <2>2. PICK goal \in Configs : LeadsTo(t, goal) /\ (InSession /\ t = cur => goal = activeConf)
    BY <2>1 DEF PipelineInv
  <2>3. LeadsTo(t, goal)'
    BY <1>1, <1>2, <2>2 DEF LeadsTo
  <2> QED
    BY <1>3, <2>2, <2>3 DEF InSession
<1> QED
  BY <1>4 DEF PipelineInv

\* A processing thread that ends has no pipeline any more.
LEMMA EndProcessingPipeline ==
  ASSUME TypeInv, PipelineInv, NEW s \in Slots, EndProcessing(s), UNCHANGED mainVars
  PROVE  PipelineInv'
<1>1. proc'[s] = "none"
  BY DEF EndProcessing, TypeInv, TypeOK, ThreadTypeOK
<1>2. \A t \in Slots \ {s} : UNCHANGED <<pipeline[t], pipeconfQ[t], proc[t]>>
  BY DEF EndProcessing, TypeInv, TypeOK, ThreadTypeOK, OtherQueuesOK
<1> QED
  BY <1>1, <1>2 DEF PipelineInv, LeadsTo, InSession, mainVars

LEMMA ProcessingPipeline ==
  ASSUME TypeInv, PipelineInv, NEW s \in Slots, ProcessingThread(s) PROVE PipelineInv'
<1>1. /\ UNCHANGED mainVars /\ proc[s] # "none"
      /\ \A t \in Slots \ {s} : proc'[t] = proc[t]
  BY DEF ProcessingThread, ProcessingStep, BuildPipeline, ReceiveAudio, ForwardAudio,
     SendFails, TakeChange, EndProcessing, unchangedByProcessing,
     TypeInv, TypeOK, ThreadTypeOK
<1>2. CASE EndProcessing(s)
  BY <1>1, <1>2, EndProcessingPipeline
<1>3. CASE UNCHANGED <<pipeline, pipeconfQ>>
  BY <1>1, <1>3, PipelineUnchanged DEF mainVars, InSession
<1>4. CASE /\ pipeconfQ[s] # <<>>
           /\ pipeline' = [pipeline EXCEPT ![s] = ApplyChange(@, Head(pipeconfQ[s]))]
           /\ pipeconfQ' = [pipeconfQ EXCEPT ![s] = Tail(@)]
  BY <1>1, <1>4, TakeChangePipeline
<1> QED
  BY <1>2, <1>3, <1>4
     DEF ProcessingThread, ProcessingStep, BuildPipeline, ReceiveAudio, ForwardAudio,
     SendFails, TakeChange

LEMMA SupervisorPipeline ==
  ASSUME TypeInv, PipelineInv, SupervisorStep PROVE PipelineInv'
<1>1. CASE MainIdleExit \/ MainReceive \/ StartPanics \/ FinishSession
  BY <1>1, PipelineUnchanged
     DEF MainIdleExit, MainReceive, StartPanics, FinishSession, InSession, sessionVars, procVars
<1>2. CASE HandleReady \/ HandlePlaybackDone \/ HandleCaptureDone \/ HandleStopOrExit
  BY <1>2, PipelineUnchanged
     DEF HandleReady, HandlePlaybackDone, HandleCaptureDone, HandleStopOrExit,
     ReceiveStatus, InSession, mainVars, sessionVars, procVars
<1>3. ASSUME \/ \E msg \in PlaybackFaults : HandlePlaybackFault(msg)
             \/ \E msg \in CaptureFaults : HandleCaptureFault(msg)
      PROVE  PipelineInv'
  BY <1>3, PipelineUnchanged
     DEF HandlePlaybackFault, HandleCaptureFault, ReceiveStatus, InSession,
     sessionVars, procVars
<1> QED
  BY <1>1, <1>2, <1>3, StartSessionPipeline, HandleConfigChangedPipeline
     DEF SupervisorStep

\* The barrier lets the processing thread start; the devices and the clients do
\* not touch the pipeline.
LEMMA OthersPipeline ==
  ASSUME TypeInv, PipelineInv, NEW s \in Slots,
         BarrierRelease \/ ClientStep \/ CaptureThread(s) \/ PlaybackThread(s)
  PROVE  PipelineInv'
<1>1. CASE BarrierRelease
  <2>1. cur \in Slots /\ proc[cur] = "ready" /\ proc' = [proc EXCEPT ![cur] = "loop"]
    BY <1>1 DEF BarrierRelease, TypeInv, SessionOK
  <2>2. \A t \in Slots : proc[t] = "none" => proc'[t] = "none"
    BY <2>1 DEF TypeInv, TypeOK, ThreadTypeOK
  <2> QED
    BY <1>1, <2>2, PipelineUnchanged DEF BarrierRelease, InSession
<1>2. CASE ClientStep
  BY <1>2, PipelineUnchanged
     DEF ClientStep, SendCommand, TermSignal, InSession, mainVars, sessionVars, procVars
<1>3. CASE CaptureThread(s)
  BY <1>3, PipelineUnchanged
     DEF CaptureThread, CaptureStep, OpenCapture, PollCommand, ReadComplete, ReadPartial,
     ReadTimeout, ReadEndOfFile, ReadError, RateChange, SendStalled, SendChunk, SendEndOfStream,
     ReportEnd, EndCapture, unchangedByDevices, InSession, mainVars, procVars
<1>4. CASE PlaybackThread(s)
  BY <1>4, PipelineUnchanged
     DEF PlaybackThread, PlaybackStep, OpenPlayback, PlayChunk, FinishPlayback, EndPlayback,
     unchangedByDevices, InSession, mainVars, procVars
<1> QED
  BY <1>1, <1>2, <1>3, <1>4

LEMMA NextPipelineInv == TypeInv /\ PipelineInv /\ [Next]_vars => PipelineInv'
<1>1. PipelineInv /\ UNCHANGED vars => PipelineInv'
  BY PipelineUnchanged DEF vars, mainVars, procVars, InSession
<1>2. \E s \in Slots : TRUE
  BY SlotsAssumption
<1> QED
  BY <1>1, <1>2, SupervisorPipeline, OthersPipeline, ProcessingPipeline DEF Next

LEMMA PipelineInvariant == Spec => [](TypeInv /\ PipelineInv)
<1>1. Init => TypeInv /\ PipelineInv
  BY InitTypeInv, InitPipelineInv
<1>2. TypeInv /\ PipelineInv /\ [Next]_vars => (TypeInv /\ PipelineInv)'
  BY NextTypeInv, NextPipelineInv
<1> QED
  BY <1>1, <1>2, PTL DEF Spec

\* Whatever changes are sent, and however late they are taken, the pipeline ends up
\* as the one a restart with the active configuration would build.
THEOREM PipelineFollows == Spec => []PipelineMatchesActive
<1>1. TypeInv /\ CommandInv /\ PipelineInv => PipelineMatchesActive
  BY DEF PipelineInv, LeadsTo, CommandInv, SharedIsLocal, InSession, ChangesLead,
     TypeInv, SessionOK, PipelineMatchesActive
<1> QED
  BY <1>1, CommandInvariant, PipelineInvariant, PTL

-----------------------------------------------------------------------------
(***************************************************************************)
(* The sessions of the engine: what its threads have sent each other when  *)
(* one ends, and what is left of it when the next one starts.              *)
(*                                                                         *)
(* EndOfStreamIsLast is inductive together with the types.  The other      *)
(* properties follow from invariants on the current session: which of its  *)
(* threads are before the barrier, what the messages in its status channel *)
(* say of their senders, and that the end of the stream has passed through *)
(* every thread before it is reported.                                     *)
(***************************************************************************)
\* What happens to EndIsLast when a queue is emptied, read from or appended to.
LEMMA EndOfNothing == ASSUME NEW d PROVE EndIsLast(<<>>, d)
  BY EmptySeq DEF EndIsLast

LEMMA EndAfterReceive ==
  ASSUME NEW q \in Seq(AudioMessages), q # <<>>, NEW d \in BOOLEAN, EndIsLast(q, d)
  PROVE  EndIsLast(Tail(q), d)
<1>1. /\ Len(q) \in Nat /\ Len(Tail(q)) = Len(q) - 1
      /\ \A i \in 1..Len(Tail(q)) : Tail(q)[i] = q[i + 1]
  BY Queues
<1> DEFINE n == Len(q)
           m == Len(Tail(q))
<1>2. n \in Nat /\ m = n - 1
  BY <1>1
<1>3. ASSUME NEW i \in 1..m, Tail(q)[i] = "EndOfStream" PROVE i = m /\ d
  <2>1. i + 1 \in 1..n /\ q[i + 1] = "EndOfStream"
    BY <1>1, <1>3
  <2>2. i + 1 = n
    BY <2>1 DEF EndIsLast
  <2>3. d
    BY <2>1 DEF EndIsLast
  <2> HIDE DEF n, m
  <2>4. i = m
    BY <1>2, <2>2
  <2> QED
    BY <2>3, <2>4
<1> QED
  BY <1>3 DEF EndIsLast

LEMMA EndAfterSend ==
  ASSUME NEW q \in Seq(AudioMessages), EndIsLast(q, FALSE),
         NEW m \in AudioMessages, NEW d \in BOOLEAN, m = "EndOfStream" => d
  PROVE  EndIsLast(Append(q, m), d)
<1>1. /\ Len(q) \in Nat /\ Len(Append(q, m)) = Len(q) + 1
      /\ Append(q, m)[Len(q) + 1] = m
      /\ \A i \in 1..Len(q) : Append(q, m)[i] = q[i]
  BY Queues
<1>2. ASSUME NEW i \in 1..Len(Append(q, m)), Append(q, m)[i] = "EndOfStream"
      PROVE  i = Len(Append(q, m)) /\ d
  <2>1. CASE i \in 1..Len(q)
    BY <1>1, <1>2, <2>1 DEF EndIsLast
  <2>2. CASE i = Len(q) + 1
    BY <1>1, <1>2, <2>2
  <2> QED
    BY <1>1, <2>1, <2>2
<1> QED
  BY <1>2 DEF EndIsLast

LEMMA EndOfSender ==
  ASSUME NEW q, NEW d \in BOOLEAN, NEW e \in BOOLEAN, EndIsLast(q, d), d => e
  PROVE  EndIsLast(q, e)
  BY DEF EndIsLast

-----------------------------------------------------------------------------
\* Steps that leave the audio channels alone: a sender that is done stays so.
LEMMA QuietStep ==
  ASSUME EndOfStreamIsLast, UNCHANGED <<capQ, pbQ>>,
         \A s \in Slots : /\ CaptureIsDone(s) => CaptureIsDone(s)'
                          /\ proc[s] = "none" => proc'[s] = "none"
  PROVE  EndOfStreamIsLast'
  BY DEF EndOfStreamIsLast, EndIsLast

LEMMA InitStream == Init => EndOfStreamIsLast
  BY EndOfNothing DEF Init, EndOfStreamIsLast

LEMMA StartSessionStream ==
  ASSUME TypeInv, EndOfStreamIsLast, NEW s \in Slots, StartSession(s)
  PROVE  EndOfStreamIsLast'
<1>1. capQ'[s] = <<>> /\ pbQ'[s] = <<>>
  BY DEF StartSession, TypeInv, TypeOK, AudioQueuesOK
<1>2. ASSUME NEW t \in Slots, t # s
      PROVE  UNCHANGED <<capQ[t], pbQ[t], cap[t], proc[t]>>
  BY <1>2 DEF StartSession, TypeInv, TypeOK, AudioQueuesOK, ThreadTypeOK
<1>3. ASSUME NEW t \in Slots
      PROVE  EndIsLast(capQ'[t], CaptureIsDone(t)') /\ EndIsLast(pbQ'[t], proc'[t] = "none")
  <2>1. CASE t = s
    BY <1>1, <2>1, EndOfNothing
  <2>2. CASE t # s
    BY <1>2, <2>2 DEF EndOfStreamIsLast, CaptureIsDone
  <2> QED
    BY <2>1, <2>2
<1> QED
  BY <1>3 DEF EndOfStreamIsLast

LEMMA SupervisorStream ==
  ASSUME TypeInv, EndOfStreamIsLast, SupervisorStep \/ ClientStep
  PROVE  EndOfStreamIsLast'
<1>1. ASSUME NEW s \in Slots, StartSession(s) PROVE EndOfStreamIsLast'
  BY <1>1, StartSessionStream
<1>2. ASSUME UNCHANGED sessionVars PROVE EndOfStreamIsLast'
  BY <1>2, QuietStep DEF sessionVars, captureVars, procVars, CaptureIsDone
<1> QED
  BY <1>1, <1>2
     DEF SupervisorStep, ClientStep, MainIdleExit, MainReceive, StartPanics, HandleReady,
     HandlePlaybackFault, HandleCaptureFault, HandlePlaybackDone, HandleCaptureDone,
     HandleConfigChanged, HandleStopOrExit, FinishSession, SendCommand, TermSignal

LEMMA BarrierStream ==
  ASSUME TypeInv, EndOfStreamIsLast, BarrierRelease PROVE EndOfStreamIsLast'
<1>1. cur \in Slots
  BY DEF BarrierRelease, TypeInv, SessionOK
<1>2. ~CaptureIsDone(cur) /\ proc[cur] # "none"
  BY DEF BarrierRelease, AtBarrier, CaptureIsDone
<1>3. \A s \in Slots \ {cur} : cap'[s] = cap[s] /\ proc'[s] = proc[s]
  BY DEF BarrierRelease, TypeInv, TypeOK, ThreadTypeOK
<1> QED
  BY <1>1, <1>2, <1>3, QuietStep DEF BarrierRelease, CaptureIsDone

LEMMA PlaybackStream ==
  ASSUME TypeInv, EndOfStreamIsLast, NEW s \in Slots, PlaybackThread(s)
  PROVE  EndOfStreamIsLast'
<1>1. UNCHANGED <<capQ, cap, proc>>
  BY DEF PlaybackThread, PlaybackStep, OpenPlayback, PlayChunk, FinishPlayback, EndPlayback,
     unchangedByDevices, captureVars, procVars
<1>2. \/ UNCHANGED pbQ
      \/ pbQ[s] # <<>> /\ pbQ' = [pbQ EXCEPT ![s] = Tail(@)]
      \/ pbQ' = [pbQ EXCEPT ![s] = <<>>]
  BY DEF PlaybackThread, PlaybackStep, OpenPlayback, PlayChunk, FinishPlayback, EndPlayback
<1>3. ASSUME NEW t \in Slots PROVE EndIsLast(pbQ'[t], proc[t] = "none")
  <2>1. pbQ[t] \in Seq(AudioMessages) /\ EndIsLast(pbQ[t], proc[t] = "none")
    BY DEF TypeInv, TypeOK, AudioQueuesOK, EndOfStreamIsLast
  <2>2. \/ pbQ'[t] = pbQ[t] \/ pbQ'[t] = <<>>
        \/ pbQ[t] # <<>> /\ pbQ'[t] = Tail(pbQ[t])
    BY <1>2 DEF TypeInv, TypeOK, AudioQueuesOK
  <2> QED
    BY <2>1, <2>2, EndOfNothing, EndAfterReceive
<1> QED
  BY <1>1, <1>3 DEF EndOfStreamIsLast, CaptureIsDone

LEMMA CaptureStream ==
  ASSUME TypeInv, EndOfStreamIsLast, NEW s \in Slots, CaptureThread(s)
  PROVE  EndOfStreamIsLast'
<1>1. UNCHANGED <<pbQ, proc>>
  BY DEF CaptureThread, CaptureStep, OpenCapture, PollCommand, ReadComplete, ReadPartial,
     ReadTimeout, ReadEndOfFile, ReadError, RateChange, SendStalled, SendChunk, SendEndOfStream,
     ReportEnd, EndCapture, unchangedByDevices, procVars
<1>2. CASE UNCHANGED capQ /\ \A t \in Slots : CaptureIsDone(t) => CaptureIsDone(t)'
  BY <1>1, <1>2, QuietStep
<1>3. ASSUME SendStalled(s) \/ SendChunk(s) \/ SendEndOfStream(s)
      PROVE  EndOfStreamIsLast'
  <2>1. /\ ~CaptureIsDone(s) /\ Outgoing[cap[s]] \in AudioMessages
        /\ Outgoing[cap[s]] = "EndOfStream" => CaptureIsDone(s)'
        /\ AudioSent(s) \/ AudioFails(s)
        /\ \A t \in Slots \ {s} : cap'[t] = cap[t]
    BY <1>3 DEF SendStalled, SendChunk, SendEndOfStream, CaptureIsDone, Outgoing, AfterEndOfStream,
       AudioMessages, TypeInv, TypeOK, ThreadTypeOK
  <2>2. CASE AudioFails(s)
    BY <1>1, <2>1, <2>2, QuietStep DEF AudioFails, CaptureIsDone
  <2>3. CASE AudioSent(s)
    <3>1. /\ capQ'[s] = Append(capQ[s], Outgoing[cap[s]])
          /\ capQ[s] \in Seq(AudioMessages)
          /\ \A t \in Slots \ {s} : capQ'[t] = capQ[t]
      BY <2>3 DEF AudioSent, TypeInv, TypeOK, AudioQueuesOK
    <3>2. EndIsLast(capQ[s], FALSE)
      BY <2>1 DEF EndOfStreamIsLast, EndIsLast
    <3>3. CaptureIsDone(s)' \in BOOLEAN
      BY DEF CaptureIsDone
    <3>4. EndIsLast(capQ'[s], CaptureIsDone(s)')
      BY <2>1, <3>1, <3>2, <3>3, EndAfterSend
    <3> QED
      BY <1>1, <2>1, <3>1, <3>4 DEF EndOfStreamIsLast, CaptureIsDone
  <2> QED
    BY <2>1, <2>2, <2>3
<1>4. ASSUME CaptureStep(s), ~(SendStalled(s) \/ SendChunk(s) \/ SendEndOfStream(s))
      PROVE  UNCHANGED capQ /\ \A t \in Slots : CaptureIsDone(t) => CaptureIsDone(t)'
  BY <1>4 DEF CaptureStep, OpenCapture, PollCommand, ReadComplete, ReadPartial,
     ReadTimeout, ReadEndOfFile, ReadError, RateChange, ReportEnd, EndCapture,
     CaptureIsDone, TypeInv, TypeOK, ThreadTypeOK
<1> QED
  BY <1>2, <1>3, <1>4 DEF CaptureThread

LEMMA ProcessingStream ==
  ASSUME TypeInv, EndOfStreamIsLast, NEW s \in Slots, ProcessingThread(s)
  PROVE  EndOfStreamIsLast'
<1>1. UNCHANGED cap /\ proc[s] # "none" /\ \A t \in Slots \ {s} : proc'[t] = proc[t]
  BY DEF ProcessingThread, ProcessingStep, BuildPipeline, ReceiveAudio, ForwardAudio,
     SendFails, TakeChange, EndProcessing, unchangedByProcessing, captureVars,
     TypeInv, TypeOK, ThreadTypeOK
<1>2. \/ UNCHANGED capQ
      \/ capQ[s] # <<>> /\ capQ' = [capQ EXCEPT ![s] = Tail(@)]
      \/ capQ' = [capQ EXCEPT ![s] = <<>>]
  BY DEF ProcessingThread, ProcessingStep, BuildPipeline, ReceiveAudio, ForwardAudio,
     SendFails, TakeChange, EndProcessing
<1>3. ASSUME NEW t \in Slots PROVE EndIsLast(capQ'[t], CaptureIsDone(t)')
  <2>1. /\ capQ[t] \in Seq(AudioMessages) /\ CaptureIsDone(t)' = CaptureIsDone(t)
        /\ CaptureIsDone(t) \in BOOLEAN /\ EndIsLast(capQ[t], CaptureIsDone(t))
    BY <1>1 DEF TypeInv, TypeOK, AudioQueuesOK, EndOfStreamIsLast, CaptureIsDone
  <2>2. \/ capQ'[t] = capQ[t] \/ capQ'[t] = <<>>
        \/ capQ[t] # <<>> /\ capQ'[t] = Tail(capQ[t])
    BY <1>2 DEF TypeInv, TypeOK, AudioQueuesOK
  <2> QED
    BY <2>1, <2>2, EndOfNothing, EndAfterReceive
<1>4. \/ UNCHANGED pbQ
      \/ /\ proc[s] = "send"
         /\ procMsg[s] = "EndOfStream" => proc'[s] = "none"
         /\ pbQ' = [pbQ EXCEPT ![s] = Append(@, procMsg[s])]
  BY DEF ProcessingThread, ProcessingStep, BuildPipeline, ReceiveAudio, ForwardAudio,
     SendFails, EndProcessing, TypeInv, TypeOK, ThreadTypeOK
<1>5. EndIsLast(pbQ[s], FALSE)
  BY <1>1 DEF EndOfStreamIsLast, EndIsLast
<1>6. ASSUME NEW t \in Slots PROVE EndIsLast(pbQ'[t], proc'[t] = "none")
  <2>1. CASE t # s
    BY <1>1, <1>4, <2>1 DEF TypeInv, TypeOK, AudioQueuesOK, EndOfStreamIsLast
  <2>2. CASE t = s /\ UNCHANGED pbQ
    BY <1>5, <2>2, EndOfSender
  <2>3. CASE t = s /\ ~UNCHANGED pbQ
    <3>1. /\ pbQ[s] \in Seq(AudioMessages) /\ pbQ'[s] = Append(pbQ[s], procMsg[s])
          /\ procMsg[s] \in AudioMessages
      BY <1>4, <2>3 DEF TypeInv, TypeOK, AudioQueuesOK, SessionOK
    <3> QED
      BY <1>4, <1>5, <2>3, <3>1, EndAfterSend
  <2> QED
    BY <2>1, <2>2, <2>3
<1> QED
  BY <1>3, <1>6 DEF EndOfStreamIsLast

LEMMA NextStream == TypeInv /\ EndOfStreamIsLast /\ [Next]_vars => EndOfStreamIsLast'
<1>1. EndOfStreamIsLast /\ UNCHANGED vars => EndOfStreamIsLast'
  BY QuietStep DEF vars, captureVars, procVars, CaptureIsDone
<1> QED
  BY <1>1, SupervisorStream, BarrierStream, PlaybackStream, CaptureStream, ProcessingStream
     DEF Next

\* No thread sends anything after EndOfStream: the last message of a session
\* cannot be overtaken or followed in its channel.
THEOREM StreamEnds == Spec => []EndOfStreamIsLast
<1>1. Init => TypeInv /\ EndOfStreamIsLast
  BY InitTypeInv, InitStream
<1>2. TypeInv /\ EndOfStreamIsLast /\ [Next]_vars => (TypeInv /\ EndOfStreamIsLast)'
  BY NextTypeInv, NextStream
<1> QED
  BY <1>1, <1>2, PTL DEF Spec

-----------------------------------------------------------------------------
\* ---------------------------- The status channel --------------------------

\* A status message waits for the supervisor.
Queued(msg) == \E i \in 1..Len(statusQ[cur]) : statusQ[cur][i] = msg

\* The supervisor takes the first message, the others stay in their order.
LEMMA StatusReceived ==
  ASSUME TypeInv, NEW msg, ReceiveStatus(msg), UNCHANGED cur
  PROVE  /\ cur \in Slots /\ msg \in StatusMessages
         /\ Len(statusQ[cur]) \in Nat \ {0} /\ statusQ[cur][1] = msg
         /\ Len(statusQ'[cur]) = Len(statusQ[cur]) - 1
         /\ \A i \in 1..Len(statusQ'[cur]) : statusQ'[cur][i] = statusQ[cur][i + 1]
         /\ Queued(msg)
         /\ \A m : Queued(m)' => Queued(m)
         /\ \A m : Queued(m) /\ m # msg => Queued(m)'
<1> DEFINE q == statusQ[cur]
           r == statusQ'[cur]
<1>1. /\ cur \in Slots /\ q \in Seq(StatusMessages) /\ q # <<>> /\ msg = Head(q)
      /\ r = Tail(q)
  BY DEF ReceiveStatus, TypeInv, TypeOK, OtherQueuesOK, SessionOK
<1>2. /\ Len(q) \in Nat \ {0} /\ q[1] = msg /\ msg \in StatusMessages
      /\ Len(r) = Len(q) - 1
      /\ \A i \in 1..Len(r) : r[i] = q[i + 1]
  BY <1>1, Queues
<1>3. /\ \A m : Queued(m) <=> \E i \in 1..Len(q) : q[i] = m
      /\ \A m : Queued(m)' <=> \E i \in 1..Len(r) : r[i] = m
  BY DEF Queued
<1> HIDE DEF q, r
<1>4. \A m : (\E i \in 1..Len(r) : r[i] = m) => \E i \in 1..Len(q) : q[i] = m
  <2> SUFFICES ASSUME NEW i \in 1..Len(r) PROVE \E j \in 1..Len(q) : q[j] = r[i]
    OBVIOUS
  <2>1. i + 1 \in 1..Len(q) /\ q[i + 1] = r[i]
    BY <1>2
  <2> QED
    BY <2>1
<1>5. \A m : (\E i \in 1..Len(q) : q[i] = m) /\ m # msg => \E i \in 1..Len(r) : r[i] = m
  <2> SUFFICES ASSUME NEW i \in 1..Len(q), q[i] # msg PROVE \E j \in 1..Len(r) : r[j] = q[i]
    OBVIOUS
  <2>1. i - 1 \in 1..Len(r) /\ r[i - 1] = q[i]
    BY <1>2
  <2> QED
    BY <2>1
<1>6. 1 \in 1..Len(q)
  BY <1>2
<1> QED
  BY <1>1, <1>2, <1>3, <1>4, <1>5, <1>6 DEF q, r

\* A thread of the current session puts a message behind the others; what threads
\* of earlier sessions report goes nowhere.
LEMMA StatusReported ==
  ASSUME TypeInv, NEW s \in Slots, NEW msg \in StatusMessages, Report(s, msg), UNCHANGED cur
  PROVE  /\ cur # s => UNCHANGED statusQ
         /\ cur = s => /\ Len(statusQ[cur]) \in Nat
                       /\ Len(statusQ'[cur]) = Len(statusQ[cur]) + 1
                       /\ statusQ'[cur][Len(statusQ[cur]) + 1] = msg
                       /\ \A i \in 1..Len(statusQ[cur]) : statusQ'[cur][i] = statusQ[cur][i]
         /\ \A m : Queued(m)' <=> Queued(m) \/ (cur = s /\ m = msg)
<1>1. CASE cur # s
  BY <1>1 DEF Report, Queued
<1>2. CASE cur = s
  <2> DEFINE q == statusQ[cur]
             r == statusQ'[cur]
  <2>1. q \in Seq(StatusMessages) /\ r = Append(q, msg)
    BY <1>2 DEF Report, TypeInv, TypeOK, OtherQueuesOK
  <2>2. /\ Len(q) \in Nat /\ Len(r) = Len(q) + 1 /\ r[Len(q) + 1] = msg
        /\ \A i \in 1..Len(q) : r[i] = q[i]
    BY <2>1
  <2>3. /\ \A m : Queued(m) <=> \E i \in 1..Len(q) : q[i] = m
        /\ \A m : Queued(m)' <=> \E i \in 1..Len(r) : r[i] = m
    BY DEF Queued
  <2> HIDE DEF q, r
  <2>4. \A m : (\E i \in 1..Len(r) : r[i] = m) <=> (\E i \in 1..Len(q) : q[i] = m) \/ m = msg
    <3>1. ASSUME NEW i \in 1..Len(r)
          PROVE  r[i] = msg \/ \E j \in 1..Len(q) : q[j] = r[i]
      <4>1. i \in 1..Len(q) \/ i = Len(q) + 1
        BY <2>2
      <4> QED
        BY <2>2, <4>1
    <3>2. ASSUME NEW i \in 1..Len(q) PROVE \E j \in 1..Len(r) : r[j] = q[i]
      <4>1. i \in 1..Len(r)
        BY <2>2
      <4> QED
        BY <2>2, <4>1
    <3>3. Len(q) + 1 \in 1..Len(r)
      BY <2>2
    <3> QED
      BY <2>2, <3>1, <3>2, <3>3
  <2> QED
    BY <1>2, <2>2, <2>3, <2>4 DEF q, r
<1> QED
  BY <1>1, <1>2

-----------------------------------------------------------------------------
\* --------------------- What the steps of the threads do --------------------

Opening == {"opening", "ready", "failed"}

\* The capture thread: how it moves, what it publishes and what it reports.
LEMMA CaptureEffect ==
  ASSUME TypeInv, NEW s \in Slots, CaptureThread(s)
  PROVE  /\ Alive /\ UNCHANGED <<mainVars, pb, proc, procMsg, pbQ>>
         /\ \A t \in Slots \ {s} : cap'[t] = cap[t]
         /\ \/ cap[s] = "opening" /\ cap'[s] \in {"ready", "failed"} /\ UNCHANGED captureState
            \/ cap[s] \notin Opening \cup {"none"} /\ cap'[s] \notin Opening
         /\ CaptureIsDone(s) => CaptureIsDone(s)'
         /\ cap'[s] = "none" => cap[s] = "end" /\ captureState' = "Inactive" /\ UNCHANGED statusQ
         /\ CaptureIsDone(s) /\ cap'[s] # "none" => UNCHANGED captureState
         /\ captureState' = "Inactive" => captureState = "Inactive" \/ cap'[s] = "none"
         /\ cap'[s] = "sendEndFormat" => "rate_change" \in Faults
         /\ cap'[s] = "reportFormat" => cap[s] = "sendEndFormat"
         /\ \/ UNCHANGED <<statusQ, reported>> /\ cap[s] # "opening"
            \/ Report(s, "CaptureReady") /\ UNCHANGED reported
                 /\ cap[s] = "opening" /\ cap'[s] = "ready"
            \/ ReportFault(s, "CaptureError") /\ cap[s] = "opening" /\ cap'[s] = "failed"
            \/ ReportFault(s, "CaptureError") /\ cap[s] = "read" /\ "cap_read" \in Faults
                 /\ cap'[s] \in {"sendAudio", "sendPause"}
            \/ Report(s, "CaptureDone") /\ UNCHANGED reported
                 /\ cap[s] = "reportDone" /\ cap'[s] = "end"
            \/ ReportFault(s, "CaptureFormatChange")
                 /\ cap[s] = "reportFormat" /\ cap'[s] = "end"
<1> USE DEF TypeInv, TypeOK, ThreadTypeOK, CaptureSteps, CaptureIsDone, Opening,
        unchangedByDevices, procVars, captureVars, CaptureThread
<1>1. CASE OpenCapture(s)
  BY <1>1 DEF OpenCapture
<1>2. CASE PollCommand(s)
  BY <1>2 DEF PollCommand
<1>3. CASE ReadComplete(s) \/ RateChange(s)
  BY <1>3 DEF ReadComplete, RateChange, AfterRead, SignalStates
<1>4. CASE ReadPartial(s) \/ ReadTimeout(s) \/ ReadEndOfFile(s)
  BY <1>4 DEF ReadPartial, ReadTimeout, ReadEndOfFile, AfterRead
<1>5. CASE ReadError(s)
  BY <1>5 DEF ReadError, AfterRead
<1>6. CASE SendStalled(s) \/ SendChunk(s)
  BY <1>6 DEF SendStalled, SendChunk
<1>7. CASE SendEndOfStream(s)
  BY <1>7 DEF SendEndOfStream, AfterEndOfStream
<1>8. CASE ReportEnd(s)
  BY <1>8 DEF ReportEnd
<1>9. CASE EndCapture(s)
  BY <1>9 DEF EndCapture
<1> QED
  BY <1>1, <1>2, <1>3, <1>4, <1>5, <1>6, <1>7, <1>8, <1>9 DEF CaptureStep

\* The playback thread: how it moves, what it takes and what it reports.
LEMMA PlaybackEffect ==
  ASSUME TypeInv, NEW s \in Slots, PlaybackThread(s)
  PROVE  /\ Alive /\ UNCHANGED <<mainVars, cap, proc, procMsg, captureState>>
         /\ \A t \in Slots \ {s} : pb'[t] = pb[t] /\ pbQ'[t] = pbQ[t]
         /\ \/ /\ pb[s] = "opening" /\ pb'[s] = "ready" /\ pbQ'[s] = pbQ[s]
               /\ Report(s, "PlaybackReady") /\ UNCHANGED reported
            \/ /\ pb[s] = "opening" /\ pb'[s] = "failed" /\ pbQ'[s] = pbQ[s]
               /\ ReportFault(s, "PlaybackError")
            \/ /\ pb[s] = "loop" /\ pb'[s] = "loop"
               /\ pbQ[s] # <<>> /\ pbQ'[s] = Tail(pbQ[s]) /\ Head(pbQ[s]) # "EndOfStream"
               /\ \/ UNCHANGED <<statusQ, reported>>
                  \/ "pb_write" \in Faults /\ ReportFault(s, "PlaybackError")
            \/ /\ pb[s] = "loop" /\ pb'[s] = "end" /\ pbQ'[s] = Tail(pbQ[s])
               /\ pbQ[s] # <<>> /\ Head(pbQ[s]) = "EndOfStream"
               /\ Report(s, "PlaybackDone") /\ UNCHANGED reported
            \/ /\ pb[s] = "loop" /\ pb'[s] = "end" /\ pbQ'[s] = pbQ[s]
               /\ pbQ[s] = <<>> /\ proc[s] = "none"
               /\ ReportFault(s, "PlaybackError")
            \/ /\ pb[s] = "end" /\ pb'[s] = "none" /\ pbQ'[s] = <<>>
               /\ UNCHANGED <<statusQ, reported>>
<1> USE DEF TypeInv, TypeOK, ThreadTypeOK, AudioQueuesOK, PlaybackSteps,
        unchangedByDevices, procVars, captureVars, PlaybackThread
<1>1. CASE OpenPlayback(s)
  BY <1>1 DEF OpenPlayback
<1>2. CASE PlayChunk(s)
  BY <1>2 DEF PlayChunk
<1>3. CASE FinishPlayback(s)
  BY <1>3 DEF FinishPlayback
<1>4. CASE EndPlayback(s)
  BY <1>4 DEF EndPlayback
<1> QED
  BY <1>1, <1>2, <1>3, <1>4 DEF PlaybackStep

\* The processing thread: how it moves, and what it forwards.
LEMMA ProcessingEffect ==
  ASSUME TypeInv, NEW s \in Slots, ProcessingThread(s)
  PROVE  /\ Alive /\ UNCHANGED <<mainVars, cap, pb, statusQ, reported, captureState>>
         /\ \A t \in Slots \ {s} : /\ proc'[t] = proc[t] /\ procMsg'[t] = procMsg[t]
                                   /\ pbQ'[t] = pbQ[t]
         /\ \/ /\ proc[s] = "building" /\ UNCHANGED <<procMsg, pbQ>>
               /\ \/ proc'[s] = "ready"
                  \/ proc'[s] = "none" /\ FiltersUnwrapPanics(activeConf)
            \/ /\ proc[s] = "loop" /\ proc'[s] = "send" /\ UNCHANGED pbQ
               /\ procMsg'[s] = "EndOfStream" =>
                    cap[s] = "none" \/ (capQ[s] # <<>> /\ Head(capQ[s]) = "EndOfStream")
            \/ /\ proc[s] = "send" /\ pb[s] = "none" /\ proc'[s] = "none" /\ UNCHANGED pbQ
            \/ /\ proc[s] = "send" /\ pb[s] # "none"
               /\ procMsg[s] \in AudioMessages /\ pbQ'[s] = Append(pbQ[s], procMsg[s])
               /\ \/ procMsg[s] = "EndOfStream" /\ proc'[s] = "none"
                  \/ procMsg[s] # "EndOfStream" /\ proc'[s] = "loop"
                  \/ /\ procMsg[s] # "EndOfStream" /\ proc'[s] = "none"
                     /\ pipeconfQ[s] # <<>> /\ Panics(pipeline[s], Head(pipeconfQ[s]))
<1> USE DEF TypeInv, TypeOK, ThreadTypeOK, AudioQueuesOK, ProcSteps, SessionOK,
        unchangedByProcessing, captureVars, ProcessingThread
<1>1. CASE BuildPipeline(s)
  BY <1>1 DEF BuildPipeline, EndProcessing
<1>2. CASE ReceiveAudio(s)
  BY <1>2 DEF ReceiveAudio
<1>3. CASE ForwardAudio(s)
  BY <1>3 DEF ForwardAudio, SendFails, TakeChange, EndProcessing
<1> QED
  BY <1>1, <1>2, <1>3 DEF ProcessingStep

-----------------------------------------------------------------------------
\* ------------------------- Before and past the barrier --------------------

Starting == stage \in {"starting", "barrier"}

\* The playback thread is past its loop.
PlaybackIsDone(s) == pb[s] \in {"end", "none"}

BeforeBarrier(s) == /\ cap[s] \in Opening /\ pb[s] \in Opening
                    /\ proc[s] \in {"building", "ready", "none"}
PastBarrier(s)   == /\ cap[s] \notin Opening /\ pb[s] \notin Opening
                    /\ proc[s] \notin {"building", "ready"}

\* The threads of a session that is starting have not passed the barrier, all
\* others have.  A session runs once it has both ready messages, and PlaybackDone
\* is the last message of its sender.
BarrierInv ==
  /\ stage = "wait" => cur = NoSlot
  /\ Alive => \A s \in Slots : IF Starting /\ s = cur THEN BeforeBarrier(s)
                                                      ELSE PastBarrier(s)
  /\ stage = "barrier" /\ ending = "None" => Len(ready) = 2
  /\ stage = "running" => Len(ready) >= 2
  /\ cur \in Slots /\ Queued("PlaybackDone") => PlaybackIsDone(cur)

LEMMA InitBarrierInv == Init => BarrierInv
  BY SlotsAssumption
     DEF Init, BarrierInv, Starting, BeforeBarrier, PastBarrier, Opening, Alive

\* Steps of the supervisor and the clients that leave the threads alone.
LEMMA BarrierUnmoved ==
  ASSUME TypeInv, BarrierInv, UNCHANGED <<cap, pb, proc, cur>>,
         Queued("PlaybackDone")' => Queued("PlaybackDone"),
         stage' = "wait" => stage = "wait",
         Alive' => Alive,
         \/ ~Alive'
         \/ Starting' = Starting /\ UNCHANGED ready
              /\ (stage' = "barrier" /\ ending' = "None" => stage = "barrier" /\ ending = "None")
              /\ (stage' = "running" => stage = "running")
         \/ ~Starting /\ stage' \in {"running", "joining"}
              /\ (stage' = "running" => Len(ready') >= 2)
         \/ Starting /\ Starting' /\ (stage' = "barrier" /\ ending' = "None" => Len(ready') = 2)
  PROVE  BarrierInv'
  BY DEF BarrierInv, Alive, Starting, BeforeBarrier, PastBarrier, PlaybackIsDone, TypeInv, SessionOK

LEMMA StartSessionBarrier ==
  ASSUME TypeInv, BarrierInv, NEW s \in Slots, StartSession(s) PROVE BarrierInv'
<1>1. /\ cap'[s] = "opening" /\ pb'[s] = "opening" /\ proc'[s] = "building"
      /\ \A t \in Slots \ {s} : UNCHANGED <<cap[t], pb[t], proc[t]>>
      /\ statusQ'[s] = <<>> /\ cur' = s /\ stage' = "starting" /\ stage = "wait"
  BY DEF StartSession, TypeInv, TypeOK, ThreadTypeOK, OtherQueuesOK
<1>2. ~Queued("PlaybackDone")'
  BY <1>1, EmptySeq DEF Queued
<1>3. /\ BeforeBarrier(s)' /\ Starting'
      /\ \A t \in Slots \ {s} : PastBarrier(t)'
  BY <1>1 DEF BarrierInv, Alive, Starting, BeforeBarrier, PastBarrier, Opening
<1> QED
  BY <1>1, <1>2, <1>3 DEF BarrierInv

LEMMA HandleReadyBarrier ==
  ASSUME TypeInv, BarrierInv, HandleReady PROVE BarrierInv'
<1>1. /\ cur \in Slots /\ UNCHANGED <<cap, pb, proc, cur, ending>>
      /\ stage \in {"starting", "running"}
      /\ stage' = IF Len(ready') = 2 THEN "barrier" ELSE stage
      /\ Queued("PlaybackDone")' => Queued("PlaybackDone")
  BY StatusReceived
     DEF HandleReady, ReceiveStatus, sessionVars, captureVars, procVars, TypeInv, SessionOK
<1>2. Len(ready) \in Nat /\ Len(ready') = Len(ready) + 1
  <2>1. \E d \in Devices : ready' = Append(ready, d)
    BY DEF HandleReady, Devices
  <2> QED
    BY <2>1, Queues DEF TypeInv, TypeOK, MainTypeOK
<1> DEFINE n == Len(ready)
           m == Len(ready')
<1>3. n \in Nat /\ m = n + 1
  BY <1>2
<1>4. stage = "running" => n >= 2
  BY DEF BarrierInv
<1>5. stage' = IF m = 2 THEN "barrier" ELSE stage
  BY <1>1
<1> HIDE DEF n, m
<1>6. CASE stage = "starting"
  <2>1. Starting /\ Starting' /\ (stage' = "barrier" => m = 2)
    BY <1>5, <1>6 DEF Starting
  <2> QED
    BY <1>1, <1>6, <2>1, BarrierUnmoved DEF m, Alive
<1>7. CASE stage = "running"
  <2>1. stage' = "running" /\ m >= 2 /\ ~Starting
    BY <1>3, <1>4, <1>5, <1>7 DEF Starting
  <2> QED
    BY <1>1, <1>7, <2>1, BarrierUnmoved DEF m, Alive
<1> QED
  BY <1>1, <1>6, <1>7

LEMMA SupervisorBarrier ==
  ASSUME TypeInv, BarrierInv, SupervisorStep \/ ClientStep PROVE BarrierInv'
<1>1. CASE MainIdleExit \/ MainReceive \/ StartPanics
  BY <1>1, BarrierUnmoved
     DEF MainIdleExit, MainReceive, StartPanics, Queued, Starting, Alive, sessionVars, captureVars, procVars
<1>2. ASSUME NEW msg \in DeviceFaults,
             HandlePlaybackFault(msg) \/ HandleCaptureFault(msg)
      PROVE  BarrierInv'
  <2>1. /\ UNCHANGED <<cap, pb, proc, cur, ready>>
        /\ stage \in {"starting", "running"}
        /\ stage' = IF stage = "starting" THEN "barrier" ELSE "joining"
        /\ ending' # "None"
        /\ Queued("PlaybackDone")' => Queued("PlaybackDone")
    BY <1>2, StatusReceived
       DEF HandlePlaybackFault, HandleCaptureFault, ReceiveStatus, sessionVars, captureVars,
       procVars, DeviceFaults, PlaybackFaults, CaptureFaults
  <2> QED
    BY <2>1, BarrierUnmoved DEF Starting, Alive
<1>3. CASE HandlePlaybackDone
  <2>1. /\ cur \in Slots /\ Queued("PlaybackDone")
        /\ stage \in {"starting", "running"} /\ stage' = "joining"
        /\ UNCHANGED <<cap, pb, proc, cur, ready>>
        /\ Queued("PlaybackDone")' => Queued("PlaybackDone")
    BY <1>3, StatusReceived
       DEF HandlePlaybackDone, ReceiveStatus, sessionVars, captureVars, procVars
  <2>2. ~Starting
    BY <2>1 DEF BarrierInv, Alive, Starting, BeforeBarrier, Opening, PlaybackIsDone
  <2> QED
    BY <2>1, <2>2, BarrierUnmoved DEF Alive
<1>4. CASE HandleCaptureDone
  <2>1. UNCHANGED mainVars /\ Queued("PlaybackDone")' => Queued("PlaybackDone")
    BY <1>4, StatusReceived DEF HandleCaptureDone, mainVars
  <2> QED
    BY <1>4, <2>1, BarrierUnmoved
       DEF HandleCaptureDone, Starting, Alive, mainVars, sessionVars, captureVars, procVars
<1>5. ASSUME HandleStopOrExit \/ \E c \in Configs : HandleConfigChanged(c)
      PROVE  BarrierInv'
  BY <1>5, BarrierUnmoved
     DEF HandleStopOrExit, HandleConfigChanged, Queued, Starting, Alive, sessionVars,
     captureVars, procVars, BarrierInv
<1>6. CASE FinishSession
  <2>1. /\ stage = "joining" /\ cur' = NoSlot /\ stage' \in {"wait", "exited"}
        /\ UNCHANGED <<cap, pb, proc>>
    BY <1>6 DEF FinishSession, sessionVars, captureVars, procVars
  <2> QED
    BY <2>1, SlotsAssumption DEF BarrierInv, Alive, Starting, PastBarrier
<1>7. CASE ClientStep
  BY <1>7, BarrierUnmoved
     DEF ClientStep, SendCommand, TermSignal, Queued, Starting, Alive, mainVars, sessionVars,
     captureVars, procVars
<1> QED
  BY <1>1, <1>2, <1>3, <1>4, <1>5, <1>6, <1>7, StartSessionBarrier, HandleReadyBarrier
     DEF SupervisorStep, DeviceFaults

LEMMA ReleaseBarrier ==
  ASSUME TypeInv, BarrierInv, BarrierRelease PROVE BarrierInv'
<1>1. /\ cur \in Slots /\ Starting /\ Alive /\ stage' \in {"running", "joining"}
      /\ stage' = "running" => ending = "None"
      /\ UNCHANGED <<cur, ready, statusQ>>
      /\ ~PlaybackIsDone(cur)
  BY DEF BarrierRelease, AfterBarrier, AtBarrier, PlaybackIsDone, TypeInv, SessionOK, Starting, Alive
<1>2. /\ \A t \in Slots \ {cur} : UNCHANGED <<cap[t], pb[t], proc[t]>>
      /\ PastBarrier(cur)'
  BY <1>1 DEF BarrierRelease, AtBarrier, PastBarrier, Opening, TypeInv, TypeOK, ThreadTypeOK
<1>3. \A t \in Slots : PastBarrier(t)' /\ ~Starting'
  BY <1>1, <1>2 DEF BarrierInv, Starting, PastBarrier
<1>4. ~Queued("PlaybackDone")'
  BY <1>1 DEF BarrierInv, Queued
<1>5. stage' = "running" => Len(ready') = 2
  BY <1>1 DEF BarrierInv, BarrierRelease
<1> QED
  BY <1>1, <1>3, <1>4, <1>5 DEF BarrierInv

LEMMA ThreadsBarrier ==
  ASSUME TypeInv, BarrierInv, NEW s \in Slots,
         CaptureThread(s) \/ PlaybackThread(s) \/ ProcessingThread(s)
  PROVE  BarrierInv'
<1>1. UNCHANGED <<stage, ending, cur, ready>> /\ Alive /\ Starting' = Starting
  BY CaptureEffect, PlaybackEffect, ProcessingEffect DEF mainVars, Starting
<1>2. ASSUME NEW t \in Slots
      PROVE  IF Starting /\ t = cur THEN BeforeBarrier(t)' ELSE PastBarrier(t)'
  <2>1. IF Starting /\ t = cur THEN BeforeBarrier(t) ELSE PastBarrier(t)
    BY <1>1 DEF BarrierInv
  <2>2. CASE CaptureThread(s)
    BY <2>1, <2>2, CaptureEffect DEF BeforeBarrier, PastBarrier, Opening
  <2>3. CASE PlaybackThread(s)
    BY <2>1, <2>3, PlaybackEffect DEF BeforeBarrier, PastBarrier, Opening
  <2>4. CASE ProcessingThread(s)
    BY <2>1, <2>4, ProcessingEffect DEF BeforeBarrier, PastBarrier, Opening
  <2> QED
    BY <2>2, <2>3, <2>4
<1>3. cur \in Slots /\ Queued("PlaybackDone")' => PlaybackIsDone(cur)'
  <2>1. CASE CaptureThread(s)
    <3>1. /\ UNCHANGED pb
          /\ \/ UNCHANGED statusQ
             \/ \E msg \in StatusMessages \ {"PlaybackDone"} : Report(s, msg)
      BY <2>1, CaptureEffect DEF ReportFault, StatusMessages, DeviceFaults, CaptureFaults
    <3>2. Queued("PlaybackDone")' => Queued("PlaybackDone")
      BY <1>1, <3>1, StatusReported DEF Queued
    <3> QED
      BY <1>1, <3>1, <3>2 DEF BarrierInv, PlaybackIsDone
  <2>2. CASE PlaybackThread(s)
    <3>1. /\ PlaybackIsDone(s) => PlaybackIsDone(s)'
          /\ \A t \in Slots \ {s} : pb'[t] = pb[t]
      BY <2>2, PlaybackEffect DEF PlaybackIsDone
    <3>2. \/ UNCHANGED statusQ
          \/ \E msg \in StatusMessages : Report(s, msg) /\ (msg = "PlaybackDone" => PlaybackIsDone(s)')
      BY <2>2, PlaybackEffect DEF ReportFault, StatusMessages, DeviceFaults, PlaybackFaults, PlaybackIsDone
    <3>3. Queued("PlaybackDone")' => Queued("PlaybackDone") \/ (cur = s /\ PlaybackIsDone(s)')
      BY <1>1, <3>2, StatusReported DEF Queued
    <3> QED
      BY <1>1, <3>1, <3>3 DEF BarrierInv, PlaybackIsDone
  <2>3. CASE ProcessingThread(s)
    BY <1>1, <2>3, ProcessingEffect DEF BarrierInv, Queued, PlaybackIsDone
  <2> QED
    BY <2>1, <2>2, <2>3
<1> QED
  BY <1>1, <1>2, <1>3 DEF BarrierInv

LEMMA NextBarrierInv == TypeInv /\ BarrierInv /\ [Next]_vars => BarrierInv'
<1>1. TypeInv /\ BarrierInv /\ UNCHANGED vars => BarrierInv'
  BY BarrierUnmoved DEF vars, mainVars, captureVars, procVars, Queued, Starting, Alive
<1> QED
  BY <1>1, SupervisorBarrier, ReleaseBarrier, ThreadsBarrier DEF Next

\* The supervisor and the clients between the start and the end of a session: the
\* supervisor stays where it is, goes on to the barrier, or leaves its loop for a
\* reason, and it takes at most one status message.
LEMMA SupervisorEffect ==
  ASSUME TypeInv, BarrierInv, SupervisorStep \/ ClientStep,
         ~FinishSession, ~\E s \in Slots : StartSession(s)
  PROVE  /\ Alive /\ UNCHANGED <<sessionVars, cur, reported>>
         /\ \/ UNCHANGED captureState
            \/ ~Alive' /\ captureState' = "Starting"
         /\ \/ UNCHANGED <<stage, ending, statusQ>>
            \/ ~Alive' /\ UNCHANGED <<ending, statusQ>>
            \/ /\ UNCHANGED <<stage, ending>>
               /\ \E msg \in {"PlaybackReady", "CaptureReady", "CaptureDone"} : ReceiveStatus(msg)
            \/ /\ stage = "starting" /\ stage' = "barrier"
               /\ \/ ending' = ending /\ \E msg \in {"PlaybackReady", "CaptureReady"} : ReceiveStatus(msg)
                  \/ ending' \in DeviceFaults /\ ReceiveStatus(ending')
            \/ /\ stage = "running" /\ stage' = "joining"
               /\ ending' \in DeviceFaults \cup {"PlaybackDone"} /\ ReceiveStatus(ending')
            \/ /\ stage = "running" /\ stage' = "joining"
               /\ ending' \in {"Devices", "Stop", "Exit"} /\ UNCHANGED statusQ
<1>1. CASE MainIdleExit \/ MainReceive \/ StartPanics \/ ClientStep
  BY <1>1
     DEF MainIdleExit, MainReceive, StartPanics, ClientStep, SendCommand, TermSignal, Alive, mainVars
<1>2. CASE HandleReady
  <2>1. stage = "running" => stage' = stage
    <3> SUFFICES ASSUME stage = "running" PROVE Len(ready') # 2
      BY <1>2 DEF HandleReady
    <3>1. Len(ready) \in Nat /\ Len(ready') = Len(ready) + 1
      <4>1. \E d \in Devices : ready' = Append(ready, d)
        BY <1>2 DEF HandleReady, Devices
      <4> QED
        BY <4>1, Queues DEF TypeInv, TypeOK, MainTypeOK
    <3>2. Len(ready) >= 2
      BY DEF BarrierInv
    <3> QED
      BY <3>1, <3>2
  <2> QED
    BY <1>2, <2>1 DEF HandleReady, ReceiveStatus, Alive
<1>3. ASSUME NEW msg \in DeviceFaults,
             HandlePlaybackFault(msg) \/ HandleCaptureFault(msg)
      PROVE  /\ Alive /\ UNCHANGED <<sessionVars, captureState, cur, reported>>
             /\ ending' = msg /\ ReceiveStatus(msg)
             /\ stage \in {"starting", "running"}
             /\ stage' = IF stage = "starting" THEN "barrier" ELSE "joining"
  BY <1>3 DEF HandlePlaybackFault, HandleCaptureFault, ReceiveStatus, Alive
<1>4. CASE HandlePlaybackDone
  <2>1. ReceiveStatus("PlaybackDone") /\ UNCHANGED cur
    BY <1>4 DEF HandlePlaybackDone
  <2>2. stage = "running"
    BY <2>1, StatusReceived
       DEF ReceiveStatus, BarrierInv, Alive, Starting, BeforeBarrier, Opening, PlaybackIsDone
  <2> QED
    BY <1>4, <2>2 DEF HandlePlaybackDone, Alive
<1>5. CASE HandleCaptureDone
  BY <1>5 DEF HandleCaptureDone, ReceiveStatus, Alive, mainVars
<1>6. CASE HandleStopOrExit
  BY <1>6, Commands DEF HandleStopOrExit, Alive
<1>7. ASSUME NEW c \in Configs, HandleConfigChanged(c)
      PROVE  /\ Alive /\ UNCHANGED <<sessionVars, captureState, cur, reported, statusQ>>
             /\ \/ UNCHANGED <<stage, ending>>
                \/ ~Alive' /\ UNCHANGED ending
                \/ stage = "running" /\ stage' = "joining" /\ ending' = "Devices"
  BY <1>7 DEF HandleConfigChanged, Alive
<1> QED
  BY <1>1, <1>2, <1>3, <1>4, <1>5, <1>6, <1>7 DEF SupervisorStep, DeviceFaults

-----------------------------------------------------------------------------
\* ----------------------- Each device is ready only once -------------------

IsIn(q, m)       == \E i \in 1..Len(q) : q[i] = m
AtMostOnce(q, m) == \A i, j \in 1..Len(q) : q[i] = m /\ q[j] = m => i = j

LEMMA OnceInNothing == ASSUME NEW m PROVE ~IsIn(<<>>, m) /\ AtMostOnce(<<>>, m)
  BY EmptySeq DEF IsIn, AtMostOnce

LEMMA OnceAfterReceive ==
  ASSUME NEW M, NEW q \in Seq(M), q # <<>>, NEW m, AtMostOnce(q, m)
  PROVE  /\ AtMostOnce(Tail(q), m)
         /\ IsIn(Tail(q), m) => IsIn(q, m)
         /\ Head(q) = m => IsIn(q, m) /\ ~IsIn(Tail(q), m)
<1> DEFINE r == Tail(q)
<1>1. /\ Len(q) \in Nat \ {0} /\ Len(r) = Len(q) - 1 /\ Head(q) = q[1]
      /\ \A i \in 1..Len(r) : r[i] = q[i + 1] /\ i + 1 \in 1..Len(q) /\ i + 1 # 1
      /\ 1 \in 1..Len(q)
  BY Queues
<1> HIDE DEF r
<1>2. AtMostOnce(r, m)
  <2> SUFFICES ASSUME NEW i \in 1..Len(r), NEW j \in 1..Len(r), r[i] = m, r[j] = m PROVE i = j
    BY DEF AtMostOnce
  <2>1. i + 1 = j + 1
    BY <1>1 DEF AtMostOnce
  <2> QED
    BY <2>1
<1>3. IsIn(r, m) => IsIn(q, m)
  BY <1>1 DEF IsIn
<1>4. Head(q) = m => IsIn(q, m) /\ ~IsIn(r, m)
  BY <1>1 DEF IsIn, AtMostOnce
<1> QED
  BY <1>2, <1>3, <1>4 DEF r

LEMMA LeftAfterReceive ==
  ASSUME NEW M, NEW q \in Seq(M), q # <<>>, NEW m, IsIn(q, m), Head(q) # m
  PROVE  IsIn(Tail(q), m)
<1>1. PICK i \in 1..Len(q) : q[i] = m
  BY DEF IsIn
<1>2. i # 1 /\ Len(q) \in Nat /\ Len(Tail(q)) = Len(q) - 1
  BY <1>1, Queues
<1>3. i - 1 \in 1..Len(Tail(q))
  BY <1>2
<1>4. Tail(q)[i - 1] = q[i]
  BY <1>2, <1>3
<1> QED
  BY <1>1, <1>3, <1>4 DEF IsIn

LEMMA OnceAfterSend ==
  ASSUME NEW M, NEW q \in Seq(M), NEW n \in M, NEW m
  PROVE  /\ IsIn(Append(q, n), m) <=> IsIn(q, m) \/ n = m
         /\ AtMostOnce(q, m) /\ (n = m => ~IsIn(q, m)) => AtMostOnce(Append(q, n), m)
<1> DEFINE r == Append(q, n)
<1>1. /\ Len(q) \in Nat /\ Len(r) = Len(q) + 1 /\ r[Len(q) + 1] = n
      /\ \A i \in 1..Len(q) : r[i] = q[i]
  BY Queues
<1> HIDE DEF r
<1>2. /\ \A i \in 1..Len(r) : i \in 1..Len(q) \/ i = Len(q) + 1
      /\ \A i \in 1..Len(q) : i \in 1..Len(r)
      /\ Len(q) + 1 \in 1..Len(r)
  BY <1>1
<1>3. IsIn(r, m) <=> IsIn(q, m) \/ n = m
  BY <1>1, <1>2 DEF IsIn
<1>4. AtMostOnce(q, m) /\ (n = m => ~IsIn(q, m)) => AtMostOnce(r, m)
  BY <1>1, <1>2 DEF IsIn, AtMostOnce
<1> QED
  BY <1>3, <1>4 DEF r

\* The ready message of a device whose thread is at step at: it is in the status
\* channel or has been counted, and only if the thread is ready.
ReadyOK(d, msg, at) ==
  /\ IsIn(statusQ[cur], msg) \/ IsIn(ready, d) => at = "ready"
  /\ ~(IsIn(statusQ[cur], msg) /\ IsIn(ready, d))
  /\ AtMostOnce(statusQ[cur], msg) /\ AtMostOnce(ready, d)

ReadyInv ==
  Starting => /\ ReadyOK("playback", "PlaybackReady", pb[cur])
              /\ ReadyOK("capture", "CaptureReady", cap[cur])

LEMMA InitReadyInv == Init => ReadyInv
  BY DEF Init, ReadyInv, Starting

LEMMA StartSessionReady ==
  ASSUME TypeInv, NEW s \in Slots, StartSession(s) PROVE ReadyInv'
<1>1. statusQ'[cur'] = <<>> /\ ready' = <<>>
  BY DEF StartSession, TypeInv, TypeOK, OtherQueuesOK
<1> QED
  BY <1>1, OnceInNothing DEF ReadyInv, ReadyOK

\* The supervisor takes a status message while the session starts.
LEMMA StatusReady ==
  ASSUME TypeInv, ReadyInv, Starting, NEW msg, ReceiveStatus(msg),
         UNCHANGED <<cur, cap, pb>>,
         \/ UNCHANGED ready /\ msg \notin {"PlaybackReady", "CaptureReady"}
         \/ msg = "PlaybackReady" /\ ready' = Append(ready, "playback")
         \/ msg = "CaptureReady" /\ ready' = Append(ready, "capture")
  PROVE  ReadyInv'
<1>1. /\ cur \in Slots /\ statusQ[cur] \in Seq(StatusMessages) /\ statusQ[cur] # <<>>
      /\ Head(statusQ[cur]) = msg /\ statusQ'[cur] = Tail(statusQ[cur])
      /\ ready \in Seq(Devices) /\ "playback" \in Devices /\ "capture" \in Devices
  BY DEF ReceiveStatus, TypeInv, TypeOK, OtherQueuesOK, MainTypeOK, Starting, SessionOK, Devices
<1>2. ASSUME NEW d, NEW m, NEW at, ReadyOK(d, m, at),
             \/ UNCHANGED ready /\ msg # m
             \/ msg = m /\ ready' = Append(ready, d)
             \/ msg # m /\ \E e \in Devices \ {d} : ready' = Append(ready, e)
      PROVE  /\ IsIn(statusQ'[cur], m) \/ IsIn(ready', d) => at = "ready"
             /\ ~(IsIn(statusQ'[cur], m) /\ IsIn(ready', d))
             /\ AtMostOnce(statusQ'[cur], m) /\ AtMostOnce(ready', d)
  <2>1. /\ AtMostOnce(statusQ'[cur], m)
        /\ IsIn(statusQ'[cur], m) => IsIn(statusQ[cur], m)
        /\ msg = m => IsIn(statusQ[cur], m) /\ ~IsIn(statusQ'[cur], m)
    BY <1>1, <1>2, OnceAfterReceive DEF ReadyOK
  <2>2. CASE UNCHANGED ready
    BY <1>2, <2>1, <2>2 DEF ReadyOK
  <2>3. CASE msg = m /\ ready' = Append(ready, d)
    <3>1. ~IsIn(ready, d)
      BY <1>2, <2>1, <2>3 DEF ReadyOK
    <3>2. ready \in Seq(Devices \cup {d}) /\ d \in Devices \cup {d}
      BY <1>1
    <3>3. AtMostOnce(ready', d)
      BY <1>2, <2>3, <3>1, <3>2, OnceAfterSend DEF ReadyOK
    <3> QED
      BY <1>2, <2>1, <2>3, <3>3 DEF ReadyOK
  <2>4. ASSUME msg # m, NEW e \in Devices \ {d}, ready' = Append(ready, e)
        PROVE  AtMostOnce(ready', d) /\ (IsIn(ready', d) <=> IsIn(ready, d))
    BY <1>1, <1>2, <2>4, OnceAfterSend DEF ReadyOK
  <2> QED
    BY <1>2, <2>1, <2>2, <2>3, <2>4 DEF ReadyOK
<1>3. /\ ReadyOK("playback", "PlaybackReady", pb[cur])
      /\ ReadyOK("capture", "CaptureReady", cap[cur])
  BY DEF ReadyInv
<1>4. /\ ReadyOK("playback", "PlaybackReady", pb[cur])'
      /\ ReadyOK("capture", "CaptureReady", cap[cur])'
  BY <1>1, <1>2, <1>3 DEF ReadyOK
<1> QED
  BY <1>4 DEF ReadyInv

LEMMA SupervisorReady ==
  ASSUME TypeInv, BarrierInv, ReadyInv, SupervisorStep \/ ClientStep PROVE ReadyInv'
<1>1. CASE \/ MainIdleExit \/ MainReceive \/ StartPanics
         \/ HandlePlaybackDone \/ HandleStopOrExit \/ FinishSession
  BY <1>1 DEF MainIdleExit, MainReceive, StartPanics, HandlePlaybackDone, HandleStopOrExit, FinishSession,
     ReadyInv, Starting
<1>2. CASE \E c \in Configs : HandleConfigChanged(c)
  BY <1>2 DEF HandleConfigChanged, ReadyInv, Starting
<1>3. CASE HandleReady
  <2>1. ~Starting => ~Starting'
    <3> SUFFICES ASSUME stage = "running" PROVE Len(ready') # 2
      BY <1>3 DEF HandleReady, ReceiveStatus, Starting
    <3>1. Len(ready) \in Nat /\ Len(ready') = Len(ready) + 1
      <4>1. \E d \in Devices : ready' = Append(ready, d)
        BY <1>3 DEF HandleReady, Devices
      <4> QED
        BY <4>1, Queues DEF TypeInv, TypeOK, MainTypeOK
    <3>2. Len(ready) >= 2
      BY DEF BarrierInv
    <3> QED
      BY <3>1, <3>2
  <2>2. ASSUME Starting PROVE ReadyInv'
    BY <1>3, <2>2, StatusReady DEF HandleReady, sessionVars, captureVars
  <2> QED
    BY <2>1, <2>2 DEF ReadyInv
<1>4. ASSUME NEW msg \in DeviceFaults,
             HandlePlaybackFault(msg) \/ HandleCaptureFault(msg)
      PROVE  ReadyInv'
  <2>1. /\ ReceiveStatus(msg) /\ UNCHANGED <<cur, cap, pb, ready>>
        /\ ~Starting => ~Starting'
    BY <1>4 DEF HandlePlaybackFault, HandleCaptureFault, ReceiveStatus, Starting, sessionVars,
       captureVars
  <2>2. msg \notin {"PlaybackReady", "CaptureReady"}
    BY DEF DeviceFaults, PlaybackFaults, CaptureFaults
  <2>3. Starting => ReadyInv'
    BY <2>1, <2>2, StatusReady
  <2> QED
    BY <2>1, <2>3 DEF ReadyInv
<1>5. CASE HandleCaptureDone
  <2>1. /\ ReceiveStatus("CaptureDone") /\ UNCHANGED <<cur, cap, pb, ready, stage>>
    BY <1>5 DEF HandleCaptureDone, mainVars, sessionVars, captureVars
  <2>2. Starting => ReadyInv'
    BY <2>1, StatusReady
  <2> QED
    BY <2>1, <2>2 DEF ReadyInv, Starting
<1>6. CASE ClientStep
  <2>1. UNCHANGED <<cur, cap, pb, ready, statusQ>> /\ (Starting' => Starting)
    BY <1>6 DEF ClientStep, SendCommand, TermSignal, mainVars, sessionVars, captureVars, Starting
  <2> QED
    BY <2>1 DEF ReadyInv, ReadyOK
<1> QED
  BY <1>1, <1>2, <1>3, <1>4, <1>5, <1>6, StartSessionReady DEF SupervisorStep, DeviceFaults

\* A thread before the barrier sends one message, when it has opened its device.
LEMMA ThreadsReady ==
  ASSUME TypeInv, BarrierInv, ReadyInv, NEW s \in Slots,
         CaptureThread(s) \/ PlaybackThread(s) \/ ProcessingThread(s)
  PROVE  ReadyInv'
<1>1. UNCHANGED <<stage, cur, ready>> /\ Alive
  BY CaptureEffect, PlaybackEffect, ProcessingEffect DEF mainVars
<1> SUFFICES ASSUME Starting
             PROVE  /\ ReadyOK("playback", "PlaybackReady", pb[cur])'
                    /\ ReadyOK("capture", "CaptureReady", cap[cur])'
  BY <1>1 DEF ReadyInv, Starting
<1>2. /\ cur \in Slots /\ statusQ[cur] \in Seq(StatusMessages) /\ BeforeBarrier(cur)
      /\ ReadyOK("playback", "PlaybackReady", pb[cur])
      /\ ReadyOK("capture", "CaptureReady", cap[cur])
  BY <1>1 DEF Starting, TypeInv, TypeOK, SessionOK, OtherQueuesOK, BarrierInv, ReadyInv
<1>3. CASE UNCHANGED statusQ /\ (pb[cur] = "ready" => pb'[cur] = "ready")
                             /\ (cap[cur] = "ready" => cap'[cur] = "ready")
  BY <1>1, <1>2, <1>3 DEF ReadyOK
<1>4. ASSUME NEW msg \in StatusMessages, statusQ'[cur] = Append(statusQ[cur], msg),
             msg = "PlaybackReady" => pb[cur] = "opening" /\ pb'[cur] = "ready",
             msg # "PlaybackReady" => pb[cur] # "ready" \/ pb'[cur] = "ready",
             msg = "CaptureReady" => cap[cur] = "opening" /\ cap'[cur] = "ready",
             msg # "CaptureReady" => cap[cur] # "ready" \/ cap'[cur] = "ready"
      PROVE  /\ ReadyOK("playback", "PlaybackReady", pb[cur])'
             /\ ReadyOK("capture", "CaptureReady", cap[cur])'
  <2>1. ASSUME NEW m PROVE /\ IsIn(statusQ'[cur], m) <=> IsIn(statusQ[cur], m) \/ msg = m
                           /\ AtMostOnce(statusQ[cur], m) /\ (msg = m => ~IsIn(statusQ[cur], m))
                                => AtMostOnce(statusQ'[cur], m)
    BY <1>2, <1>4, OnceAfterSend
  <2> QED
    BY <1>1, <1>2, <1>4, <2>1 DEF ReadyOK
<1>5. CASE s # cur
  BY <1>2, <1>3, <1>5, CaptureEffect, PlaybackEffect, ProcessingEffect
     DEF Report, ReportFault, BeforeBarrier
<1>6. CASE s = cur
  <2>1. CASE ProcessingThread(s)
    BY <1>3, <2>1, ProcessingEffect
  <2>2. CASE CaptureThread(s)
    <3>1. \/ cap[s] = "opening" /\ cap'[s] = "ready" /\ Report(s, "CaptureReady")
          \/ cap[s] = "opening" /\ cap'[s] = "failed" /\ Report(s, "CaptureError")
      BY <1>2, <1>6, <2>2, CaptureEffect DEF BeforeBarrier, Opening, ReportFault
    <3>2. UNCHANGED pb
      BY <2>2, CaptureEffect
    <3> QED
      BY <1>2, <1>4, <1>6, <3>1, <3>2
         DEF Report, TypeInv, TypeOK, OtherQueuesOK, StatusMessages, DeviceFaults, CaptureFaults
  <2>3. CASE PlaybackThread(s)
    <3>1. \/ pb[s] = "opening" /\ pb'[s] = "ready" /\ Report(s, "PlaybackReady")
          \/ pb[s] = "opening" /\ pb'[s] = "failed" /\ Report(s, "PlaybackError")
      BY <1>2, <1>6, <2>3, PlaybackEffect DEF BeforeBarrier, Opening, ReportFault
    <3>2. UNCHANGED cap
      BY <2>3, PlaybackEffect
    <3> QED
      BY <1>2, <1>4, <1>6, <3>1, <3>2
         DEF Report, TypeInv, TypeOK, OtherQueuesOK, StatusMessages, DeviceFaults, PlaybackFaults
  <2> QED
    BY <2>1, <2>2, <2>3
<1> QED
  BY <1>5, <1>6

LEMMA NextReadyInv == TypeInv /\ BarrierInv /\ ReadyInv /\ [Next]_vars => ReadyInv'
<1>1. ReadyInv /\ UNCHANGED vars => ReadyInv'
  BY DEF vars, mainVars, captureVars, ReadyInv, ReadyOK, Starting
<1>2. TypeInv /\ BarrierRelease => ReadyInv'
  BY DEF BarrierRelease, AfterBarrier, ReadyInv, Starting
<1> QED
  BY <1>1, <1>2, SupervisorReady, ThreadsReady DEF Next

\* A session goes into the barrier without a fault only when both devices are open.
LEMMA BothReady ==
  ASSUME TypeInv, BarrierInv, ReadyInv, stage = "barrier", ending = "None"
  PROVE  cap[cur] = "ready" /\ pb[cur] = "ready"
<1>1. Len(ready) = 2 /\ ready \in Seq(Devices)
  BY DEF BarrierInv, TypeInv, TypeOK, MainTypeOK
<1>2. 1 \in 1..Len(ready) /\ 2 \in 1..Len(ready) /\ ready[1] \in Devices /\ ready[2] \in Devices
  BY <1>1
<1>3. AtMostOnce(ready, "playback") /\ AtMostOnce(ready, "capture")
  BY DEF ReadyInv, Starting, ReadyOK
<1>4. ready[1] # ready[2]
  BY <1>2, <1>3 DEF AtMostOnce, Devices
<1>5. IsIn(ready, "playback") /\ IsIn(ready, "capture")
  BY <1>2, <1>4 DEF Devices, IsIn
<1> QED
  BY <1>5 DEF ReadyInv, Starting, ReadyOK

-----------------------------------------------------------------------------
\* --------------------- The channel to the playback thread -----------------

\* No configuration makes the processing thread panic: none has an empty Filter step
\* and no filters section, and a processor keeps its type under its name.
NoPanics ==
  /\ \A c \in Configs : ~FiltersUnwrapPanics(c)
  /\ \A c, d \in Configs : \A p \in DOMAIN c.processors \cap DOMAIN d.processors :
       c.processors[p].type = d.processors[p].type

\* Under NoPanics a change that is taken does not end the processing thread.
LEMMA ChangeDoesNotPanic ==
  ASSUME TypeInv, PipelineInv, NoPanics, NEW s \in Slots, proc[s] # "none", pipeconfQ[s] # <<>>
  PROVE  ~Panics(pipeline[s], Head(pipeconfQ[s]))
<1>1. PICK base \in Configs, goal \in Configs :
        pipeline[s] = from_config(base) /\ ChangesLead(pipeconfQ[s], base, goal)
  BY DEF PipelineInv, LeadsTo
<1>2. pipeconfQ[s] \in Seq(PipelineMessages)
  BY DEF TypeInv, TypeOK, OtherQueuesOK
<1> DEFINE msg == Head(pipeconfQ[s])
           new == msg.conf
<1>3. msg \in PipelineMessages /\ msg = pipeconfQ[s][1]
  BY <1>2, Queues
<1>4. new \in Configs /\ msg.change = config_diff(base, new)
  BY <1>1, <1>3 DEF ChangesLead, PipelineMessages
<1> HIDE DEF msg, new
<1>5. /\ base.pipeline.filters \subseteq DOMAIN base.filters
      /\ base.pipeline.processors \subseteq DOMAIN base.processors
  BY ConfigsAssumption DEF ValidConfig
<1>6. /\ DOMAIN pipeline[s].filters = base.pipeline.filters
      /\ \A f \in base.pipeline.filters : pipeline[s].filters[f] = base.filters[f]
      /\ DOMAIN pipeline[s].processors = base.pipeline.processors
      /\ \A p \in base.pipeline.processors : pipeline[s].processors[p] = base.processors[p]
  BY <1>1 DEF from_config, Only
<1>7. ASSUME NEW p \in msg.change.processors \cap DOMAIN pipeline[s].processors
      PROVE  new.processors[p].type = pipeline[s].processors[p].type
  <2>1. p \in DOMAIN base.processors \cap DOMAIN new.processors
    BY <1>4, <1>7 DEF config_diff, ChangedNames
  <2> QED
    BY <1>4, <1>6, <1>7, <2>1 DEF NoPanics
<1>8. ASSUME msg.change.kind = "FilterParameters",
             NEW f \in msg.change.filters \cap DOMAIN pipeline[s].filters
      PROVE  new.filters[f].type = pipeline[s].filters[f].type
  <2>1. f \in DOMAIN base.filters \cap DOMAIN new.filters
    BY <1>4, <1>8 DEF config_diff, ChangedNames
  <2>2. ~FilterChangedType(base, new)
    BY <1>4, <1>8 DEF config_diff, DiffKind
  <2> QED
    BY <1>6, <1>8, <2>1, <2>2 DEF FilterChangedType
<1>9. ~FiltersUnwrapPanics(new)
  BY <1>4 DEF NoPanics
<1> QED
  BY <1>7, <1>8, <1>9 DEF Panics, UpdatePanics, msg, new

\* Without panics the processing thread leaves the channel to a playback thread that
\* is in its loop with the end of the stream in it: playback loses no channel.
EndBeforeClose ==
  NoPanics => \A s \in Slots :
    proc[s] = "none" /\ pb[s] = "loop" => IsIn(pbQ[s], "EndOfStream")

LEMMA InitEndBeforeClose == Init => EndBeforeClose
  BY DEF Init, EndBeforeClose

LEMMA ThreadsEndBeforeClose ==
  ASSUME TypeInv, PipelineInv, BarrierInv, EndBeforeClose, NoPanics, NEW s \in Slots,
         CaptureThread(s) \/ PlaybackThread(s) \/ ProcessingThread(s)
  PROVE  EndBeforeClose'
<1>1. \A t \in Slots \ {s} : UNCHANGED <<proc[t], pb[t], pbQ[t]>>
  BY CaptureEffect, PlaybackEffect, ProcessingEffect
<1>2. pbQ[s] \in Seq(AudioMessages) /\ (proc[s] = "none" /\ pb[s] = "loop" => IsIn(pbQ[s], "EndOfStream"))
  BY DEF EndBeforeClose, TypeInv, TypeOK, AudioQueuesOK
<1>3. ASSUME proc'[s] = "none", pb'[s] = "loop" PROVE IsIn(pbQ'[s], "EndOfStream")
  <2>1. CASE CaptureThread(s)
    BY <1>2, <1>3, <2>1, CaptureEffect
  <2>2. CASE PlaybackThread(s)
    <3>1. /\ proc[s] = "none" /\ pb[s] = "loop" /\ pbQ[s] # <<>>
          /\ pbQ'[s] = Tail(pbQ[s]) /\ Head(pbQ[s]) # "EndOfStream"
      BY <1>3, <2>2, PlaybackEffect
    <3> QED
      BY <1>2, <3>1, LeftAfterReceive
  <2>3. CASE ProcessingThread(s)
    <3>1. pb[s] = "loop" /\ PastBarrier(s)
      BY <1>3, <2>3, ProcessingEffect DEF BarrierInv, BeforeBarrier, Opening
    <3>2. /\ procMsg[s] \in AudioMessages /\ pbQ'[s] = Append(pbQ[s], procMsg[s])
          /\ \/ procMsg[s] = "EndOfStream"
             \/ pipeconfQ[s] # <<>> /\ Panics(pipeline[s], Head(pipeconfQ[s]))
          /\ proc[s] = "send"
      BY <1>3, <2>3, <3>1, ProcessingEffect DEF PastBarrier
    <3>3. procMsg[s] = "EndOfStream"
      BY <3>2, ChangeDoesNotPanic
    <3> QED
      BY <1>2, <3>2, <3>3, OnceAfterSend
  <2> QED
    BY <2>1, <2>2, <2>3
<1> QED
  BY <1>1, <1>3 DEF EndBeforeClose

LEMMA NextEndBeforeClose ==
  TypeInv /\ PipelineInv /\ BarrierInv /\ EndBeforeClose /\ [Next]_vars => EndBeforeClose'
<1> SUFFICES ASSUME TypeInv, PipelineInv, BarrierInv, EndBeforeClose, NoPanics, [Next]_vars
             PROVE  EndBeforeClose'
  BY DEF EndBeforeClose
<1>1. ASSUME NEW s \in Slots, StartSession(s) PROVE EndBeforeClose'
  <2>1. /\ pb'[s] = "opening"
        /\ \A t \in Slots \ {s} : UNCHANGED <<proc[t], pb[t], pbQ[t]>>
    BY <1>1 DEF StartSession, TypeInv, TypeOK, ThreadTypeOK, AudioQueuesOK
  <2> QED
    BY <2>1 DEF EndBeforeClose
<1>2. CASE BarrierRelease
  <2>1. /\ cur \in Slots /\ proc'[cur] = "loop" /\ UNCHANGED pbQ
        /\ \A t \in Slots \ {cur} : UNCHANGED <<proc[t], pb[t]>>
    BY <1>2 DEF BarrierRelease, TypeInv, TypeOK, ThreadTypeOK, SessionOK
  <2> QED
    BY <2>1 DEF EndBeforeClose
<1>3. CASE UNCHANGED <<proc, pb, pbQ>>
  BY <1>3 DEF EndBeforeClose
<1>4. SupervisorStep \/ ClientStep =>
        UNCHANGED <<proc, pb, pbQ>> \/ \E s \in Slots : StartSession(s)
  BY DEF SupervisorStep, ClientStep, MainIdleExit, MainReceive, StartPanics, HandleReady,
     HandlePlaybackFault, HandleCaptureFault, HandlePlaybackDone, HandleCaptureDone,
     HandleConfigChanged, HandleStopOrExit, FinishSession, SendCommand, TermSignal,
     sessionVars, procVars
<1>5. UNCHANGED vars => UNCHANGED <<proc, pb, pbQ>>
  BY DEF vars, procVars
<1> QED
  BY <1>1, <1>2, <1>3, <1>4, <1>5, ThreadsEndBeforeClose DEF Next

-----------------------------------------------------------------------------
\* ---------------------- One session after the other -----------------------

\* What the faults reported in the current session say of the threads that reported
\* them: a device that failed to open does not go on, and a thread that goes on has
\* met a read or a write error, or has lost the channel from a thread that panicked.
FaultInv ==
  /\ \A s \in Slots :
       cap[s] \in {"sendEndFormat", "reportFormat"} => "rate_change" \in Faults
  /\ Alive /\ cur \in Slots =>
       /\ \A msg \in DeviceFaults : Queued(msg) \/ ending = msg => msg \in reported
       /\ "PlaybackFormatChange" \notin reported
       /\ "PlaybackError" \in reported /\ (Starting \/ ("pb_write" \notin Faults /\ NoPanics))
            => pb[cur] \in {"failed", "none"}
       /\ "CaptureError" \in reported /\ (Starting \/ "cap_read" \notin Faults)
            => cap[cur] \in {"failed", "none"}
       /\ "CaptureFormatChange" \in reported =>
            "rate_change" \in Faults /\ cap[cur] \in {"end", "none"}

\* No thread of an earlier session is left, and the state that is published is that
\* of the capture thread while there is one.
AloneInv ==
  /\ "pb_write" \notin Faults /\ NoPanics => \A s \in Slots : pb[s] # "none" => s = cur
  /\ {"cap_read", "rate_change"} \cap Faults = {} =>
       \A s \in Slots : cap[s] # "none" => s = cur /\ captureState # "Inactive"

LEMMA InitAlone == Init => FaultInv /\ AloneInv
  BY SlotsAssumption DEF Init, FaultInv, AloneInv

LEMMA StartSessionFaults ==
  ASSUME TypeInv, FaultInv, NEW s \in Slots, StartSession(s) PROVE FaultInv'
<1>1. /\ cap'[s] = "opening" /\ cur' = s /\ ending' = "None" /\ reported' = {}
      /\ \A t \in Slots \ {s} : cap'[t] = cap[t]
      /\ statusQ'[s] = <<>>
  BY DEF StartSession, TypeInv, TypeOK, ThreadTypeOK, OtherQueuesOK
<1>2. \A msg : ~Queued(msg)'
  BY <1>1, EmptySeq DEF Queued
<1> QED
  BY <1>1, <1>2 DEF FaultInv, DeviceFaults, PlaybackFaults, CaptureFaults

LEMMA SupervisorFaults ==
  ASSUME TypeInv, BarrierInv, FaultInv, SupervisorStep \/ ClientStep PROVE FaultInv'
<1>1. ASSUME UNCHANGED <<cap, pb, reported, cur>>, Alive, Starting' => Starting,
             \A msg \in DeviceFaults : Queued(msg)' \/ ending' = msg => Queued(msg) \/ ending = msg
      PROVE  FaultInv'
  BY <1>1 DEF FaultInv
<1>2. ASSUME ~FinishSession, ~\E s \in Slots : StartSession(s) PROVE FaultInv'
  <2>1. /\ UNCHANGED <<cap, pb, reported, cur>> /\ Alive /\ (Starting' => Starting)
        /\ ending' \notin DeviceFaults \/ ending' = ending \/ ReceiveStatus(ending')
        /\ UNCHANGED statusQ \/ \E msg : ReceiveStatus(msg)
    BY <1>2, SupervisorEffect
       DEF sessionVars, captureVars, Starting, Alive, DeviceFaults, PlaybackFaults, CaptureFaults
  <2>2. \A msg : Queued(msg)' => Queued(msg)
    BY <2>1, StatusReceived DEF Queued
  <2>3. ReceiveStatus(ending') => Queued(ending')
    BY <2>1, StatusReceived
  <2> QED
    BY <1>1, <2>1, <2>2, <2>3
<1>3. CASE FinishSession
  <2>1. UNCHANGED cap /\ cur' \notin Slots
    BY <1>3, SlotsAssumption DEF FinishSession, sessionVars, captureVars
  <2> QED
    BY <2>1 DEF FaultInv
<1> QED
  BY <1>2, <1>3, StartSessionFaults

LEMMA ReleaseFaults ==
  ASSUME TypeInv, FaultInv, BarrierRelease PROVE FaultInv'
<1>1. /\ cur \in Slots /\ Starting /\ Alive
      /\ UNCHANGED <<cur, statusQ, ending, reported>>
      /\ cap[cur] \in {"ready", "failed"} /\ pb[cur] \in {"ready", "failed"}
      /\ cap'[cur] = IF cap[cur] = "ready" THEN "loop" ELSE "none"
      /\ pb'[cur] = IF pb[cur] = "ready" THEN "loop" ELSE "none"
      /\ \A t \in Slots \ {cur} : cap'[t] = cap[t]
  BY DEF BarrierRelease, AtBarrier, TypeInv, TypeOK, ThreadTypeOK, SessionOK, Starting, Alive
<1>2. \A msg : Queued(msg)' <=> Queued(msg)
  BY <1>1 DEF Queued
<1> QED
  BY <1>1, <1>2 DEF FaultInv

LEMMA ThreadsFaults ==
  ASSUME TypeInv, BarrierInv, EndBeforeClose, FaultInv, NEW s \in Slots,
         CaptureThread(s) \/ PlaybackThread(s) \/ ProcessingThread(s)
  PROVE  FaultInv'
<1>1. UNCHANGED <<stage, ending, cur>> /\ Alive /\ Starting' = Starting
  BY CaptureEffect, PlaybackEffect, ProcessingEffect DEF mainVars, Starting
<1>2. \A t \in Slots :
        cap'[t] \in {"sendEndFormat", "reportFormat"} => "rate_change" \in Faults
  BY CaptureEffect, PlaybackEffect, ProcessingEffect DEF FaultInv
<1>3. CASE cur # s
  <2>1. UNCHANGED <<statusQ, reported>> /\ (cur \in Slots => cap'[cur] = cap[cur] /\ pb'[cur] = pb[cur])
    BY <1>3, CaptureEffect, PlaybackEffect, ProcessingEffect DEF Report, ReportFault
  <2> QED
    BY <1>1, <1>2, <2>1 DEF FaultInv, Queued
<1>4. CASE cur = s /\ ProcessingThread(s)
  BY <1>1, <1>2, <1>4, ProcessingEffect DEF FaultInv, Queued
<1>5. CASE cur = s /\ CaptureThread(s)
  <2>1. \/ UNCHANGED <<statusQ, reported>>
        \/ \E msg \in StatusMessages : /\ Report(s, msg)
                                       /\ IF msg \in DeviceFaults THEN reported' = reported \cup {msg}
                                                                  ELSE UNCHANGED reported
    BY <1>5, CaptureEffect
       DEF ReportFault, StatusMessages, DeviceFaults, CaptureFaults, PlaybackFaults
  <2>2. \A msg \in DeviceFaults : Queued(msg)' \/ ending' = msg => msg \in reported'
    BY <1>1, <1>5, <2>1, StatusReported DEF FaultInv, Queued
  <2>3. UNCHANGED pb /\ "PlaybackFormatChange" \notin reported'
        /\ ("PlaybackError" \in reported' => "PlaybackError" \in reported)
    BY <1>1, <1>5, CaptureEffect DEF FaultInv, ReportFault
  <2>4. "CaptureError" \in reported' /\ (Starting \/ "cap_read" \notin Faults)
          => cap'[s] \in {"failed", "none"}
    <3>1. Starting => BeforeBarrier(s)
      BY <1>1, <1>5 DEF BarrierInv
    <3> QED
      BY <1>1, <1>5, <3>1, CaptureEffect DEF FaultInv, ReportFault, BeforeBarrier, Opening
  <2>5. "CaptureFormatChange" \in reported' => "rate_change" \in Faults /\ cap'[s] \in {"end", "none"}
    <3>1. cap[s] = "end" => cap'[s] = "end" \/ cap'[s] = "none"
      BY <1>5 DEF CaptureThread, CaptureStep, OpenCapture, PollCommand, ReadComplete, ReadPartial,
         ReadTimeout, ReadEndOfFile, ReadError, RateChange, SendStalled, SendChunk, SendEndOfStream,
         ReportEnd, EndCapture, TypeInv, TypeOK, ThreadTypeOK
    <3> QED
      BY <1>1, <1>5, <3>1, CaptureEffect DEF FaultInv, ReportFault
  <2> QED
    BY <1>1, <1>2, <1>5, <2>2, <2>3, <2>4, <2>5 DEF FaultInv
<1>6. CASE cur = s /\ PlaybackThread(s)
  <2>1. \/ UNCHANGED <<statusQ, reported>>
        \/ \E msg \in StatusMessages : /\ Report(s, msg)
                                       /\ IF msg \in DeviceFaults THEN reported' = reported \cup {msg}
                                                                  ELSE UNCHANGED reported
    BY <1>6, PlaybackEffect
       DEF ReportFault, StatusMessages, DeviceFaults, CaptureFaults, PlaybackFaults
  <2>2. \A msg \in DeviceFaults : Queued(msg)' \/ ending' = msg => msg \in reported'
    <3>1. \A msg \in DeviceFaults : Queued(msg) \/ ending = msg => msg \in reported
      BY <1>1, <1>6 DEF FaultInv
    <3>2. CASE UNCHANGED <<statusQ, reported>>
      BY <1>1, <3>1, <3>2 DEF Queued
    <3>3. ASSUME NEW m \in StatusMessages, Report(s, m),
                 IF m \in DeviceFaults THEN reported' = reported \cup {m} ELSE UNCHANGED reported
          PROVE  \A msg \in DeviceFaults : Queued(msg)' \/ ending' = msg => msg \in reported'
      <4>1. \A msg \in DeviceFaults : Queued(msg)' => Queued(msg) \/ msg = m
        BY <1>1, <1>6, <3>3, StatusReported DEF Queued
      <4> QED
        BY <1>1, <3>1, <3>3, <4>1
    <3> QED
      BY <2>1, <3>2, <3>3
  <2>3. UNCHANGED cap /\ reported' \subseteq reported \cup {"PlaybackError"}
    BY <1>1, <1>6, PlaybackEffect DEF ReportFault
  <2>4. "PlaybackError" \in reported' /\ (Starting \/ ("pb_write" \notin Faults /\ NoPanics))
          => pb'[s] \in {"failed", "none"}
    <3>1. Starting => BeforeBarrier(s)
      BY <1>1, <1>6 DEF BarrierInv
    <3>2. NoPanics /\ pbQ[s] = <<>> => ~(proc[s] = "none" /\ pb[s] = "loop")
      BY OnceInNothing DEF EndBeforeClose
    <3> QED
      BY <1>1, <1>6, <3>1, <3>2, PlaybackEffect DEF FaultInv, ReportFault, BeforeBarrier, Opening
  <2> QED
    BY <1>1, <1>2, <1>6, <2>2, <2>3, <2>4 DEF FaultInv
<1> QED
  BY <1>3, <1>4, <1>5, <1>6

LEMMA NextFaultInv ==
  TypeInv /\ BarrierInv /\ EndBeforeClose /\ FaultInv /\ [Next]_vars => FaultInv'
<1>1. FaultInv /\ UNCHANGED vars => FaultInv'
  BY DEF vars, mainVars, captureVars, FaultInv, Starting, Alive, Queued
<1> QED
  BY <1>1, SupervisorFaults, ReleaseFaults, ThreadsFaults DEF Next

\* The threads that are joined, and those whose fault ended the session, have gone
\* when run returns.
LEMMA FinishSessionAlone ==
  ASSUME TypeInv, BarrierInv, FaultInv, FinishSession
  PROVE  /\ cur \in Slots
         /\ "pb_write" \notin Faults /\ NoPanics => pb[cur] = "none"
         /\ {"cap_read", "rate_change"} \cap Faults = {} => cap[cur] = "none"
<1>1. cur \in Slots /\ stage = "joining" /\ ending # "None" /\ PastBarrier(cur) /\ Alive
  BY DEF FinishSession, TypeInv, SessionOK, BarrierInv, Alive, Starting
<1>2. CASE ending \in PlaybackFaults
  <2>1. cap[cur] = "none" /\ ending \in reported
    BY <1>1, <1>2
       DEF FinishSession, JoinsReturn, Joined, FaultInv, DeviceFaults, PlaybackFaults, CaptureFaults
  <2> QED
    BY <1>1, <1>2, <2>1 DEF FaultInv, PlaybackFaults, PastBarrier, Opening
<1>3. CASE ending \in CaptureFaults
  <2>1. pb[cur] = "none" /\ ending \in reported
    BY <1>1, <1>3
       DEF FinishSession, JoinsReturn, Joined, FaultInv, DeviceFaults, PlaybackFaults, CaptureFaults
  <2> QED
    BY <1>1, <1>3, <2>1 DEF FaultInv, CaptureFaults, PastBarrier, Opening
<1>4. CASE ending \notin DeviceFaults
  BY <1>1, <1>4 DEF FinishSession, JoinsReturn, Joined, DeviceFaults
<1> QED
  BY <1>1, <1>2, <1>3, <1>4 DEF DeviceFaults

LEMMA NextAloneInv ==
  TypeInv /\ BarrierInv /\ FaultInv /\ AloneInv /\ [Next]_vars => AloneInv'
<1> SUFFICES ASSUME TypeInv, BarrierInv, FaultInv, AloneInv, [Next]_vars PROVE AloneInv'
  OBVIOUS
<1>1. ASSUME NEW s \in Slots, StartSession(s) PROVE AloneInv'
  <2>1. /\ cur' = s /\ captureState' = "Starting" /\ cur \notin Slots
        /\ \A t \in Slots \ {s} : cap'[t] = cap[t] /\ pb'[t] = pb[t]
    BY <1>1, SlotsAssumption DEF StartSession, TypeInv, TypeOK, ThreadTypeOK, BarrierInv
  <2> QED
    BY <2>1 DEF AloneInv
<1>2. CASE FinishSession
  <2>1. UNCHANGED <<cap, pb>>
    BY <1>2 DEF FinishSession, sessionVars, captureVars
  <2> QED
    BY <1>2, <2>1, FinishSessionAlone DEF AloneInv
<1>3. CASE BarrierRelease
  <2>1. /\ cur \in Slots /\ cap[cur] # "none" /\ pb[cur] # "none"
        /\ UNCHANGED <<cur, captureState>>
        /\ \A t \in Slots \ {cur} : cap'[t] = cap[t] /\ pb'[t] = pb[t]
    BY <1>3 DEF BarrierRelease, AtBarrier, TypeInv, TypeOK, ThreadTypeOK, SessionOK
  <2> QED
    BY <2>1 DEF AloneInv
<1>4. CASE UNCHANGED <<cap, pb, cur>> /\ captureState' \in {captureState, "Starting"}
  BY <1>4 DEF AloneInv
<1>5. ASSUME NEW s \in Slots, CaptureThread(s) PROVE AloneInv'
  BY <1>5, CaptureEffect DEF AloneInv, mainVars
<1>6. ASSUME NEW s \in Slots, PlaybackThread(s) PROVE AloneInv'
  BY <1>6, PlaybackEffect DEF AloneInv, mainVars
<1>7. ASSUME NEW s \in Slots, ProcessingThread(s) PROVE UNCHANGED <<cap, pb, cur, captureState>>
  BY <1>7, ProcessingEffect DEF mainVars
<1>8. ASSUME SupervisorStep \/ ClientStep, ~FinishSession, ~\E s \in Slots : StartSession(s)
      PROVE  UNCHANGED <<cap, pb, cur>> /\ captureState' \in {captureState, "Starting"}
  BY <1>8, SupervisorEffect DEF sessionVars, captureVars
<1>9. UNCHANGED vars => UNCHANGED <<cap, pb, cur, captureState>>
  BY DEF vars, mainVars, captureVars
<1> QED
  BY <1>1, <1>2, <1>3, <1>4, <1>5, <1>6, <1>7, <1>8, <1>9 DEF Next

-----------------------------------------------------------------------------
\* -------------------------- The end of the stream -------------------------

\* When the end of the stream has reached the processing thread, and when it is on
\* its way to the playback thread, the capture thread is past its loop.
EndInv ==
  \A s \in Slots :
    (proc[s] = "send" /\ procMsg[s] = "EndOfStream") \/ IsIn(pbQ[s], "EndOfStream")
      => CaptureIsDone(s)

LEMMA InitEndInv == Init => EndInv
  BY OnceInNothing DEF Init, EndInv

LEMMA NextEndInv ==
  TypeInv /\ EndOfStreamIsLast /\ EndInv /\ [Next]_vars => EndInv'
<1> SUFFICES ASSUME TypeInv, EndOfStreamIsLast, EndInv, [Next]_vars PROVE EndInv'
  OBVIOUS
<1>1. ASSUME NEW s \in Slots, StartSession(s) PROVE EndInv'
  <2>1. /\ proc'[s] = "building" /\ pbQ'[s] = <<>>
        /\ \A t \in Slots \ {s} : UNCHANGED <<proc[t], procMsg[t], pbQ[t], cap[t]>>
    BY <1>1 DEF StartSession, TypeInv, TypeOK, ThreadTypeOK, AudioQueuesOK
  <2>2. ~IsIn(pbQ'[s], "EndOfStream")
    BY <2>1, OnceInNothing
  <2> QED
    BY <2>1, <2>2 DEF EndInv, CaptureIsDone
<1>2. CASE UNCHANGED sessionVars
  BY <1>2 DEF EndInv, CaptureIsDone, sessionVars, captureVars, procVars
<1>3. CASE BarrierRelease
  <2>1. /\ cur \in Slots /\ proc'[cur] = "loop" /\ ~CaptureIsDone(cur)
        /\ \A t \in Slots \ {cur} : proc'[t] = proc[t] /\ cap'[t] = cap[t]
        /\ UNCHANGED <<procMsg, pbQ>>
    BY <1>3 DEF BarrierRelease, AtBarrier, CaptureIsDone, TypeInv, TypeOK, ThreadTypeOK, SessionOK
  <2> QED
    BY <2>1 DEF EndInv, CaptureIsDone
<1>4. ASSUME NEW s \in Slots, CaptureThread(s) PROVE EndInv'
  <2>1. \A t \in Slots : CaptureIsDone(t) => CaptureIsDone(t)'
    BY <1>4, CaptureEffect DEF CaptureIsDone
  <2> QED
    BY <1>4, <2>1, CaptureEffect DEF EndInv
<1>5. ASSUME NEW s \in Slots, PlaybackThread(s) PROVE EndInv'
  <2>1. /\ UNCHANGED <<cap, proc, procMsg>>
        /\ \A t \in Slots \ {s} : pbQ'[t] = pbQ[t]
        /\ pbQ'[s] = pbQ[s] \/ pbQ'[s] = <<>> \/ (pbQ[s] # <<>> /\ pbQ'[s] = Tail(pbQ[s]))
    BY <1>5, PlaybackEffect
  <2>2. IsIn(pbQ'[s], "EndOfStream") => IsIn(pbQ[s], "EndOfStream")
    <3>1. AtMostOnce(pbQ[s], "EndOfStream") /\ pbQ[s] \in Seq(AudioMessages)
      BY DEF EndOfStreamIsLast, EndIsLast, AtMostOnce, TypeInv, TypeOK, AudioQueuesOK
    <3> QED
      BY <2>1, <3>1, OnceInNothing, OnceAfterReceive
  <2> QED
    BY <2>1, <2>2 DEF EndInv, CaptureIsDone
<1>6. ASSUME NEW s \in Slots, ProcessingThread(s) PROVE EndInv'
  <2>1. /\ UNCHANGED cap
        /\ \A t \in Slots \ {s} : UNCHANGED <<proc[t], procMsg[t], pbQ[t]>>
    BY <1>6, ProcessingEffect
  <2>2. pbQ[s] \in Seq(AudioMessages) /\ capQ[s] \in Seq(AudioMessages)
    BY DEF TypeInv, TypeOK, AudioQueuesOK
  <2>3. capQ[s] # <<>> /\ Head(capQ[s]) = "EndOfStream" => CaptureIsDone(s)
    <3> SUFFICES ASSUME capQ[s] # <<>>, Head(capQ[s]) = "EndOfStream" PROVE CaptureIsDone(s)
      OBVIOUS
    <3>1. 1 \in 1..Len(capQ[s]) /\ capQ[s][1] = "EndOfStream"
      BY <2>2, Queues
    <3> QED
      BY <3>1 DEF EndOfStreamIsLast, EndIsLast
  <2>4. proc'[s] = "send" /\ procMsg'[s] = "EndOfStream" => CaptureIsDone(s)
    BY <1>6, <2>3, ProcessingEffect DEF EndInv, CaptureIsDone
  <2>5. ASSUME IsIn(pbQ'[s], "EndOfStream") PROVE CaptureIsDone(s)
    <3>1. \/ pbQ'[s] = pbQ[s]
          \/ /\ proc[s] = "send" /\ procMsg[s] \in AudioMessages
             /\ pbQ'[s] = Append(pbQ[s], procMsg[s])
      BY <1>6, ProcessingEffect
    <3>2. CASE pbQ'[s] = pbQ[s]
      BY <2>5, <3>2 DEF EndInv
    <3>3. CASE pbQ'[s] # pbQ[s]
      <4>1. IsIn(Append(pbQ[s], procMsg[s]), "EndOfStream")
              <=> IsIn(pbQ[s], "EndOfStream") \/ procMsg[s] = "EndOfStream"
        BY <2>2, <3>1, <3>3, OnceAfterSend
      <4>2. IsIn(Append(pbQ[s], procMsg[s]), "EndOfStream")
        BY <2>5, <3>1, <3>3
      <4> QED
        BY <3>1, <3>3, <4>1, <4>2 DEF EndInv
    <3> QED
      BY <3>2, <3>3
  <2> QED
    BY <2>1, <2>4, <2>5 DEF EndInv, CaptureIsDone
<1>7. SupervisorStep \/ ClientStep =>
        UNCHANGED sessionVars \/ \E s \in Slots : StartSession(s)
  BY DEF SupervisorStep, ClientStep, MainIdleExit, MainReceive, StartPanics, HandleReady,
     HandlePlaybackFault, HandleCaptureFault, HandlePlaybackDone, HandleCaptureDone,
     HandleConfigChanged, HandleStopOrExit, FinishSession, SendCommand, TermSignal
<1>8. UNCHANGED vars => UNCHANGED sessionVars
  BY DEF vars, sessionVars
<1> QED
  BY <1>1, <1>2, <1>3, <1>4, <1>5, <1>6, <1>7, <1>8 DEF Next

\* A playback thread that is past its loop while the session runs has said why, and
\* the supervisor has not read it yet.
LastWordInv ==
  stage = "running" /\ PlaybackIsDone(cur) => Queued("PlaybackDone") \/ Queued("PlaybackError")

LEMMA NextLastWordInv ==
  TypeInv /\ BarrierInv /\ ReadyInv /\ LastWordInv /\ [Next]_vars => LastWordInv'
<1> SUFFICES ASSUME TypeInv, BarrierInv, ReadyInv, LastWordInv, [Next]_vars,
                    stage' = "running", PlaybackIsDone(cur)'
             PROVE  Queued("PlaybackDone")' \/ Queued("PlaybackError")'
  BY DEF LastWordInv
<1>1. CASE BarrierRelease
  <2>1. /\ cur \in Slots /\ UNCHANGED cur /\ stage = "barrier" /\ ending = "None"
        /\ pb'[cur] = IF pb[cur] = "ready" THEN "loop" ELSE "none"
    BY <1>1 DEF BarrierRelease, AfterBarrier, TypeInv, TypeOK, ThreadTypeOK, SessionOK
  <2> QED
    BY <2>1, BothReady DEF PlaybackIsDone
<1>2. ASSUME SupervisorStep \/ ClientStep, ~FinishSession, ~\E s \in Slots : StartSession(s)
      PROVE  Queued("PlaybackDone")' \/ Queued("PlaybackError")'
  <2>1. /\ stage = "running" /\ UNCHANGED <<pb, cur>>
        /\ \/ UNCHANGED statusQ
           \/ \E msg \in {"PlaybackReady", "CaptureReady", "CaptureDone"} : ReceiveStatus(msg)
    BY <1>2, SupervisorEffect DEF sessionVars, Alive
  <2>2. Queued("PlaybackDone") \/ Queued("PlaybackError")
    BY <2>1 DEF LastWordInv, PlaybackIsDone
  <2> QED
    BY <2>1, <2>2, StatusReceived DEF Queued
<1>3. ASSUME NEW s \in Slots, CaptureThread(s)
      PROVE  Queued("PlaybackDone")' \/ Queued("PlaybackError")'
  <2>1. /\ UNCHANGED <<stage, pb, cur>>
        /\ UNCHANGED statusQ \/ \E msg \in StatusMessages : Report(s, msg)
    BY <1>3, CaptureEffect DEF mainVars, ReportFault, StatusMessages, DeviceFaults, CaptureFaults
  <2> QED
    BY <2>1, StatusReported DEF LastWordInv, PlaybackIsDone, Queued
<1>4. ASSUME NEW s \in Slots, PlaybackThread(s)
      PROVE  Queued("PlaybackDone")' \/ Queued("PlaybackError")'
  <2>1. /\ UNCHANGED <<stage, cur>> /\ cur \in Slots
        /\ \A t \in Slots \ {s} : pb'[t] = pb[t]
        /\ UNCHANGED statusQ \/ \E msg \in StatusMessages : Report(s, msg)
        /\ PlaybackIsDone(s)' =>
             PlaybackIsDone(s) \/ Report(s, "PlaybackDone") \/ Report(s, "PlaybackError")
        /\ PlaybackIsDone(s) => UNCHANGED statusQ
    BY <1>4, PlaybackEffect
       DEF PlaybackIsDone, mainVars, ReportFault, StatusMessages, DeviceFaults, PlaybackFaults, TypeInv, SessionOK
  <2>2. CASE cur = s
    <3>1. "PlaybackDone" \in StatusMessages /\ "PlaybackError" \in StatusMessages
      BY DEF StatusMessages, DeviceFaults, PlaybackFaults
    <3> QED
      BY <2>1, <2>2, <3>1, StatusReported DEF LastWordInv, PlaybackIsDone, Queued
  <2>3. CASE cur # s
    BY <2>1, <2>3, StatusReported DEF LastWordInv, PlaybackIsDone, Queued
  <2> QED
    BY <2>2, <2>3
<1>5. ASSUME NEW s \in Slots, ProcessingThread(s)
      PROVE  UNCHANGED <<stage, pb, cur, statusQ>>
  BY <1>5, ProcessingEffect DEF mainVars
<1>6. UNCHANGED vars => UNCHANGED <<stage, pb, cur, statusQ>>
  BY DEF vars, mainVars
<1>7. CASE UNCHANGED <<stage, pb, cur, statusQ>>
  BY <1>7 DEF LastWordInv, PlaybackIsDone, Queued
<1>8. ~FinishSession /\ ~\E s \in Slots : StartSession(s)
  BY DEF FinishSession, StartSession
<1> QED
  BY <1>1, <1>2, <1>3, <1>4, <1>5, <1>6, <1>7, <1>8 DEF Next

-----------------------------------------------------------------------------
\* ----------------------- The end of a session and faults ------------------

\* Among the messages in q a fault comes before any PlaybackDone.
FaultFirst(q) ==
  \E i \in 1..Len(q) : q[i] \in DeviceFaults /\ \A j \in 1..i : q[j] # "PlaybackDone"

LEMMA FaultFirstReceive ==
  ASSUME NEW q \in Seq(StatusMessages), q # <<>>, FaultFirst(q)
  PROVE  /\ Head(q) # "PlaybackDone"
         /\ Head(q) \notin DeviceFaults => FaultFirst(Tail(q))
<1> DEFINE r == Tail(q)
<1>1. /\ Len(q) \in Nat \ {0} /\ Len(r) = Len(q) - 1 /\ Head(q) = q[1]
      /\ \A i \in 1..Len(r) : r[i] = q[i + 1]
  BY Queues
<1> HIDE DEF r
<1>2. PICK i \in 1..Len(q) : q[i] \in DeviceFaults /\ \A j \in 1..i : q[j] # "PlaybackDone"
  BY DEF FaultFirst
<1>3. Head(q) # "PlaybackDone"
  BY <1>1, <1>2
<1>4. ASSUME Head(q) \notin DeviceFaults PROVE FaultFirst(r)
  <2>1. i - 1 \in 1..Len(r) /\ r[i - 1] = q[i]
    BY <1>1, <1>2, <1>4
  <2>2. ASSUME NEW j \in 1..i - 1 PROVE r[j] # "PlaybackDone"
    <3>1. j \in 1..Len(r) /\ j + 1 \in 1..i
      BY <1>1, <2>1
    <3> QED
      BY <1>1, <1>2, <3>1
  <2> QED
    BY <1>2, <2>1, <2>2 DEF FaultFirst
<1> QED
  BY <1>3, <1>4 DEF r

LEMMA FaultFirstSend ==
  ASSUME NEW q \in Seq(StatusMessages), NEW msg \in StatusMessages,
         FaultFirst(q) \/ (msg \in DeviceFaults /\ ~IsIn(q, "PlaybackDone"))
  PROVE  FaultFirst(Append(q, msg))
<1> DEFINE r == Append(q, msg)
<1>1. /\ Len(q) \in Nat /\ Len(r) = Len(q) + 1 /\ r[Len(q) + 1] = msg
      /\ \A i \in 1..Len(q) : r[i] = q[i]
  BY Queues
<1> HIDE DEF r
<1>2. CASE FaultFirst(q)
  <2>1. PICK i \in 1..Len(q) : q[i] \in DeviceFaults /\ \A j \in 1..i : q[j] # "PlaybackDone"
    BY <1>2 DEF FaultFirst
  <2>2. i \in 1..Len(r) /\ r[i] = q[i] /\ \A j \in 1..i : r[j] = q[j]
    BY <1>1
  <2> QED
    BY <2>1, <2>2 DEF FaultFirst, r
<1>3. CASE msg \in DeviceFaults /\ ~IsIn(q, "PlaybackDone")
  <2>1. Len(q) + 1 \in 1..Len(r) /\ r[Len(q) + 1] \in DeviceFaults
    BY <1>1, <1>3
  <2>2. ASSUME NEW j \in 1..Len(q) + 1 PROVE r[j] # "PlaybackDone"
    <3>1. j \in 1..Len(q) \/ j = Len(q) + 1
      BY <1>1
    <3> QED
      BY <1>1, <1>3, <3>1 DEF IsIn, DeviceFaults, PlaybackFaults, CaptureFaults
  <2> QED
    BY <2>1, <2>2 DEF FaultFirst, r
<1> QED
  BY <1>2, <1>3

\* Once the playback thread has played the end of the stream it has gone, and the
\* capture thread is past its loop.  Without rate changes neither reports a fault
\* after that: those of the session are in front of PlaybackDone.
DoneInv ==
  /\ Alive /\ cur \in Slots /\ (Queued("PlaybackDone") \/ (stage = "joining" /\ ending = "PlaybackDone"))
       => PlaybackIsDone(cur) /\ CaptureIsDone(cur)
  /\ "rate_change" \notin Faults =>
       /\ stage = "running" /\ reported # {} => FaultFirst(statusQ[cur])
       /\ stage = "joining" /\ ending = "PlaybackDone" => reported = {}
       /\ CleanEndMeansNoFault

LEMMA InitDoneInv == Init => DoneInv
  BY SlotsAssumption DEF Init, DoneInv, CleanEndMeansNoFault

\* No fault has been reported in a session that goes through the barrier without one.
LEMMA RunsWithoutFault ==
  ASSUME TypeInv, BarrierInv, ReadyInv, FaultInv, stage = "barrier", ending = "None"
  PROVE  reported = {}
<1>1. cap[cur] = "ready" /\ pb[cur] = "ready" /\ cur \in Slots /\ Alive /\ Starting
  BY BothReady DEF TypeInv, SessionOK, Alive, Starting
<1> QED
  BY <1>1
     DEF FaultInv, TypeInv, TypeOK, OtherQueuesOK, DeviceFaults, PlaybackFaults, CaptureFaults

\* After PlaybackDone nothing but CaptureDone is reported in the session.
LEMMA NoFaultAfterDone ==
  ASSUME TypeInv, FaultInv, NEW s \in Slots, PlaybackIsDone(s), CaptureIsDone(s),
         "rate_change" \notin Faults,
         CaptureThread(s) \/ PlaybackThread(s) \/ ProcessingThread(s)
  PROVE  UNCHANGED reported
<1>1. ASSUME CaptureThread(s) PROVE UNCHANGED reported
  <2>1. cap[s] \in {"reportDone", "end", "none"}
    BY DEF FaultInv, CaptureIsDone
  <2> QED
    BY <1>1, <2>1, CaptureEffect
<1>2. ASSUME PlaybackThread(s) PROVE UNCHANGED reported
  BY <1>2, PlaybackEffect DEF PlaybackIsDone
<1> QED
  BY <1>1, <1>2, ProcessingEffect

LEMMA SupervisorDone ==
  ASSUME TypeInv, BarrierInv, DoneInv, SupervisorStep \/ ClientStep PROVE DoneInv'
<1>1. ASSUME NEW s \in Slots, StartSession(s) PROVE DoneInv'
  <2>1. statusQ'[cur'] = <<>> /\ stage' = "starting"
    BY <1>1 DEF StartSession, TypeInv, TypeOK, OtherQueuesOK
  <2>2. ~Queued("PlaybackDone")'
    BY <2>1, EmptySeq DEF Queued
  <2> QED
    BY <2>1, <2>2 DEF DoneInv, CleanEndMeansNoFault
<1>2. CASE FinishSession
  <2>1. /\ cur' \notin Slots /\ stage = "joining" /\ stage' \in {"wait", "exited"}
        /\ UNCHANGED <<ending, reported>>
    BY <1>2, SlotsAssumption DEF FinishSession
  <2> QED
    BY <2>1 DEF DoneInv, CleanEndMeansNoFault
<1>3. ASSUME ~FinishSession, ~\E s \in Slots : StartSession(s) PROVE DoneInv'
  <2>1. /\ Alive /\ UNCHANGED <<pb, cap, cur, reported>>
        /\ \/ UNCHANGED <<stage, ending, statusQ>>
           \/ ~Alive' /\ UNCHANGED <<ending, statusQ>>
           \/ /\ UNCHANGED <<stage, ending>>
              /\ \E msg \in {"PlaybackReady", "CaptureReady", "CaptureDone"} : ReceiveStatus(msg)
           \/ /\ stage' = "barrier" /\ ending' \in {ending} \cup DeviceFaults
              /\ \E msg : ReceiveStatus(msg)
           \/ /\ stage = "running" /\ stage' = "joining"
              /\ ending' \in DeviceFaults \cup {"PlaybackDone"} /\ ReceiveStatus(ending')
           \/ /\ stage = "running" /\ stage' = "joining"
              /\ ending' \in {"Devices", "Stop", "Exit"} /\ UNCHANGED statusQ
    BY <1>3, SupervisorEffect DEF sessionVars, captureVars
  <2>2. /\ UNCHANGED statusQ \/ \E msg : ReceiveStatus(msg)
        /\ stage' = "joining" /\ ending' = "PlaybackDone"
             => (stage = "joining" /\ ending = "PlaybackDone") \/ ReceiveStatus("PlaybackDone")
    <3>1. UNCHANGED statusQ \/ \E msg : ReceiveStatus(msg)
      BY <2>1
    <3>2. stage' = "joining" /\ ending' = "PlaybackDone"
             => (stage = "joining" /\ ending = "PlaybackDone") \/ ReceiveStatus("PlaybackDone")
      BY <2>1 DEF DeviceFaults, PlaybackFaults, CaptureFaults, Alive
    <3> QED
      BY <3>1, <3>2
  <2>3. Alive /\ cur \in Slots /\ (Queued("PlaybackDone") \/ (stage = "joining" /\ ending = "PlaybackDone"))
          => PlaybackIsDone(cur) /\ CaptureIsDone(cur)
    BY DEF DoneInv
  <2>4. /\ Queued("PlaybackDone")' => Queued("PlaybackDone")
        /\ ReceiveStatus("PlaybackDone") => Queued("PlaybackDone")
    BY <2>1, <2>2, StatusReceived DEF Queued
  <2>5. Alive /\ cur' \in Slots /\ (Queued("PlaybackDone")' \/ (stage' = "joining" /\ ending' = "PlaybackDone"))
          => PlaybackIsDone(cur)' /\ CaptureIsDone(cur)'
    BY <2>1, <2>2, <2>3, <2>4 DEF PlaybackIsDone, CaptureIsDone
  <2>6. ASSUME "rate_change" \notin Faults, NEW msg, ReceiveStatus(msg), stage = "running", reported # {}
        PROVE  /\ msg # "PlaybackDone"
               /\ msg \notin DeviceFaults => FaultFirst(statusQ'[cur])
    <3>1. /\ statusQ[cur] \in Seq(StatusMessages) /\ statusQ[cur] # <<>>
          /\ msg = Head(statusQ[cur]) /\ statusQ'[cur] = Tail(statusQ[cur])
      BY <2>6 DEF ReceiveStatus, TypeInv, TypeOK, OtherQueuesOK, SessionOK
    <3> QED
      BY <2>6, <3>1, FaultFirstReceive DEF DoneInv
  <2>7. ASSUME "rate_change" \notin Faults
        PROVE  /\ stage' = "running" /\ reported' # {} => FaultFirst(statusQ'[cur'])
               /\ stage' = "joining" /\ ending' = "PlaybackDone" => reported' = {}
               /\ CleanEndMeansNoFault'
    <3>1. stage' = "running" /\ reported' # {} => FaultFirst(statusQ'[cur'])
      <4>1. ASSUME stage' = "running", reported' # {}
            PROVE  /\ stage = "running" /\ reported # {} /\ UNCHANGED cur
                   /\ \/ UNCHANGED statusQ
                      \/ \E msg \in {"PlaybackReady", "CaptureReady", "CaptureDone"} : ReceiveStatus(msg)
        BY <2>1, <4>1 DEF Alive
      <4> QED
        BY <2>6, <2>7, <4>1 DEF DoneInv, DeviceFaults, PlaybackFaults, CaptureFaults
    <3>2. stage' = "joining" /\ ending' = "PlaybackDone" => reported' = {}
      BY <2>1, <2>6, <2>7 DEF DoneInv, DeviceFaults, PlaybackFaults, CaptureFaults, Alive
    <3>3. CleanEndMeansNoFault'
      BY <2>1, <2>7 DEF DoneInv, CleanEndMeansNoFault, Alive
    <3> QED
      BY <3>1, <3>2, <3>3
  <2> QED
    BY <2>1, <2>5, <2>7 DEF DoneInv
<1> QED
  BY <1>1, <1>2, <1>3

LEMMA ThreadsDone ==
  ASSUME TypeInv, BarrierInv, FaultInv, EndOfStreamIsLast, EndInv, DoneInv, NEW s \in Slots,
         CaptureThread(s) \/ PlaybackThread(s) \/ ProcessingThread(s)
  PROVE  DoneInv'
<1>1. UNCHANGED <<stage, ending, cur>> /\ Alive
  BY CaptureEffect, PlaybackEffect, ProcessingEffect DEF mainVars
<1>2. /\ PlaybackIsDone(s) => PlaybackIsDone(s)'
      /\ CaptureIsDone(s) => CaptureIsDone(s)'
      /\ \A t \in Slots \ {s} : pb'[t] = pb[t] /\ CaptureIsDone(t)' = CaptureIsDone(t)
  BY CaptureEffect, PlaybackEffect, ProcessingEffect DEF PlaybackIsDone, CaptureIsDone
<1>3. \/ UNCHANGED <<statusQ, reported>>
      \/ \E msg \in StatusMessages :
           /\ Report(s, msg)
           /\ IF msg \in DeviceFaults /\ cur = s THEN reported' = reported \cup {msg}
                                                 ELSE UNCHANGED reported
           /\ msg = "PlaybackDone" => PlaybackThread(s) /\ PlaybackIsDone(s)' /\ CaptureIsDone(s)
  <2>1. PlaybackThread(s) /\ Report(s, "PlaybackDone") /\ pb[s] = "loop" /\ pbQ[s] # <<>>
          /\ Head(pbQ[s]) = "EndOfStream" => CaptureIsDone(s)
    <3> SUFFICES ASSUME pbQ[s] # <<>>, Head(pbQ[s]) = "EndOfStream" PROVE CaptureIsDone(s)
      OBVIOUS
    <3>1. pbQ[s] \in Seq(AudioMessages)
      BY DEF TypeInv, TypeOK, AudioQueuesOK
    <3>2. 1 \in 1..Len(pbQ[s]) /\ pbQ[s][1] = "EndOfStream"
      BY <3>1, Queues
    <3> QED
      BY <3>2 DEF EndInv, IsIn
  <2>2. CASE CaptureThread(s)
    BY <2>2, CaptureEffect
       DEF ReportFault, StatusMessages, DeviceFaults, CaptureFaults, PlaybackFaults
  <2>3. CASE PlaybackThread(s)
    BY <2>1, <2>3, PlaybackEffect
       DEF PlaybackIsDone, ReportFault, StatusMessages, DeviceFaults, CaptureFaults, PlaybackFaults
  <2>4. CASE ProcessingThread(s)
    BY <2>4, ProcessingEffect
  <2> QED
    BY <2>2, <2>3, <2>4
<1>4. Queued("PlaybackDone")' =>
        Queued("PlaybackDone") \/ (cur = s /\ PlaybackIsDone(s)' /\ CaptureIsDone(s)')
  BY <1>1, <1>2, <1>3, StatusReported DEF Queued
<1>5. cur \in Slots /\ (Queued("PlaybackDone")' \/ (stage = "joining" /\ ending = "PlaybackDone"))
        => PlaybackIsDone(cur)' /\ CaptureIsDone(cur)'
  BY <1>1, <1>2, <1>4 DEF DoneInv, PlaybackIsDone
<1>6. ASSUME "rate_change" \notin Faults
      PROVE  /\ stage = "running" /\ reported' # {} => FaultFirst(statusQ'[cur])
             /\ stage = "joining" /\ ending = "PlaybackDone" => reported' = {}
             /\ stage = "wait" => UNCHANGED reported
  <2>1. ASSUME stage = "running", reported' # {} PROVE FaultFirst(statusQ'[cur])
    <3>1. cur \in Slots /\ statusQ[cur] \in Seq(StatusMessages)
      BY <2>1 DEF TypeInv, TypeOK, OtherQueuesOK, SessionOK
    <3>2. CASE UNCHANGED <<statusQ, reported>>
      BY <1>6, <2>1, <3>2 DEF DoneInv
    <3>3. ASSUME NEW msg \in StatusMessages, Report(s, msg),
                 IF msg \in DeviceFaults /\ cur = s THEN reported' = reported \cup {msg}
                                                    ELSE UNCHANGED reported
          PROVE  FaultFirst(statusQ'[cur])
      <4>1. CASE cur # s
        BY <1>6, <2>1, <3>3, <4>1 DEF Report, DoneInv
      <4>2. CASE cur = s
        <5>1. statusQ'[cur] = Append(statusQ[cur], msg)
          BY <3>1, <3>3, <4>2 DEF Report, TypeInv, TypeOK, OtherQueuesOK
        <5>2. ASSUME reported = {} PROVE msg \in DeviceFaults /\ ~IsIn(statusQ[cur], "PlaybackDone")
          <6>1. msg \in DeviceFaults
            BY <2>1, <3>3, <5>2
          <6>2. Queued("PlaybackDone") => PlaybackIsDone(s) /\ CaptureIsDone(s)
            BY <1>1, <4>2 DEF DoneInv
          <6>3. ~Queued("PlaybackDone")
            BY <1>6, <2>1, <5>2, <6>2, NoFaultAfterDone
          <6> QED
            BY <6>1, <6>3 DEF Queued, IsIn
        <5>3. reported # {} => FaultFirst(statusQ[cur])
          BY <1>6, <2>1 DEF DoneInv
        <5> QED
          BY <3>1, <5>1, <5>2, <5>3, FaultFirstSend
      <4> QED
        BY <4>1, <4>2
    <3> QED
      BY <1>3, <3>2, <3>3
  <2>2. ASSUME stage = "joining", ending = "PlaybackDone" PROVE reported' = {}
    <3>1. cur \in Slots /\ PlaybackIsDone(cur) /\ CaptureIsDone(cur) /\ reported = {}
      BY <1>1, <1>6, <2>2 DEF DoneInv, TypeInv, SessionOK
    <3>2. UNCHANGED reported
      BY <1>3, <1>6, <3>1, NoFaultAfterDone
    <3> QED
      BY <3>1, <3>2
  <2>3. stage = "wait" => UNCHANGED reported
    BY <1>3, SlotsAssumption DEF BarrierInv
  <2> QED
    BY <2>1, <2>2, <2>3
<1> QED
  BY <1>1, <1>5, <1>6 DEF DoneInv, CleanEndMeansNoFault

LEMMA NextDoneInv ==
  /\ TypeInv /\ BarrierInv /\ ReadyInv /\ FaultInv /\ EndOfStreamIsLast /\ EndInv /\ DoneInv
  /\ [Next]_vars
  => DoneInv'
<1> SUFFICES ASSUME TypeInv, BarrierInv, ReadyInv, FaultInv, EndOfStreamIsLast, EndInv, DoneInv,
                    [Next]_vars
             PROVE  DoneInv'
  OBVIOUS
<1>1. CASE BarrierRelease
  <2>1. /\ cur \in Slots /\ UNCHANGED <<cur, ending, statusQ, reported>> /\ stage = "barrier"
        /\ ~PlaybackIsDone(cur) /\ Alive
        /\ stage' = "running" => ending = "None"
        /\ stage' \in {"running", "joining"} /\ ending # "PlaybackDone"
    BY <1>1
       DEF PlaybackIsDone, BarrierRelease, AfterBarrier, AtBarrier, TypeInv, SessionOK, DeviceFaults, PlaybackFaults,
       CaptureFaults, Alive
  <2>2. ~Queued("PlaybackDone")'
    BY <2>1 DEF BarrierInv, Queued
  <2> QED
    BY <2>1, <2>2, RunsWithoutFault DEF DoneInv, CleanEndMeansNoFault
<1>2. CASE UNCHANGED vars
  BY <1>2
     DEF vars, mainVars, captureVars, DoneInv, CleanEndMeansNoFault, Queued, PlaybackIsDone,
     CaptureIsDone, Alive
<1> QED
  BY <1>1, <1>2, SupervisorDone, ThreadsDone DEF Next

-----------------------------------------------------------------------------
\* -------------------------- The state between sessions --------------------

\* While the session is not ending with a playback fault, the processing and the
\* playback thread end only after the end of the stream.  What a capture thread of
\* an earlier session still does makes the published state Inactive and nothing else.
IdleInv ==
  /\ NoPanics /\ (stage = "running" \/ (stage = "joining" /\ ending \notin PlaybackFaults)) =>
       (proc[cur] = "none" \/ PlaybackIsDone(cur) => CaptureIsDone(cur))
  /\ (NoPanics \/ "cap_read" \notin Faults) /\ Alive =>
       /\ \A s \in Slots : s # cur => CaptureIsDone(s)
       /\ stage \in {"running", "joining"} /\ ending \notin DeviceFaults /\ cap[cur] = "none"
            => captureState = "Inactive"
       /\ IdleIsInactive

LEMMA InitIdleInv == Init => IdleInv
  BY SlotsAssumption DEF Init, IdleInv, CaptureIsDone, IdleIsInactive

\* The session that is left has no capture thread at work.
LEMMA FinishSessionDone ==
  ASSUME TypeInv, BarrierInv, FaultInv, IdleInv, NoPanics \/ "cap_read" \notin Faults, FinishSession
  PROVE  CaptureIsDone(cur)
<1>1. cur \in Slots /\ stage = "joining" /\ ending # "None" /\ PastBarrier(cur) /\ Alive
  BY DEF FinishSession, TypeInv, SessionOK, BarrierInv, Alive, Starting
<1>2. CASE ending \in CaptureFaults
  <2>1. pb[cur] = "none" /\ ending \in reported
    BY <1>1, <1>2
       DEF FinishSession, JoinsReturn, Joined, FaultInv, DeviceFaults, PlaybackFaults, CaptureFaults
  <2>2. CASE NoPanics
    BY <1>1, <1>2, <2>1, <2>2 DEF IdleInv, PlaybackIsDone, PlaybackFaults, CaptureFaults
  <2>3. CASE "cap_read" \notin Faults
    BY <1>1, <1>2, <2>1, <2>3 DEF FaultInv, CaptureFaults, PastBarrier, Opening, CaptureIsDone
  <2> QED
    BY <2>2, <2>3
<1>3. CASE ending \notin CaptureFaults
  <2>1. cap[cur] = "none"
    BY <1>3 DEF FinishSession, JoinsReturn, Joined, PlaybackFaults, CaptureFaults
  <2> QED
    BY <2>1 DEF CaptureIsDone
<1> QED
  BY <1>2, <1>3

LEMMA SupervisorIdle ==
  ASSUME TypeInv, BarrierInv, FaultInv, IdleInv, SupervisorStep \/ ClientStep PROVE IdleInv'
<1>1. ASSUME NEW s \in Slots, StartSession(s) PROVE IdleInv'
  <2>1. /\ stage = "wait" /\ stage' = "starting" /\ cur' = s /\ cur \notin Slots /\ Alive
        /\ \A t \in Slots \ {s} : cap'[t] = cap[t]
    BY <1>1, SlotsAssumption DEF StartSession, TypeInv, TypeOK, ThreadTypeOK, BarrierInv, Alive
  <2> QED
    BY <2>1 DEF IdleInv, IdleIsInactive, CaptureIsDone
<1>2. CASE FinishSession
  <2>1. /\ stage = "joining" /\ stage' \in {"wait", "exited"} /\ UNCHANGED cap /\ Alive
        /\ captureState' = IF ending \in DeviceFaults THEN "Inactive" ELSE captureState
        /\ ending \notin DeviceFaults => cap[cur] = "none"
    BY <1>2
       DEF FinishSession, sessionVars, captureVars, JoinsReturn, Joined, DeviceFaults, Alive
  <2>2. NoPanics \/ "cap_read" \notin Faults => \A s \in Slots : CaptureIsDone(s)
    BY <1>2, <2>1, FinishSessionDone DEF IdleInv
  <2> QED
    BY <2>1, <2>2 DEF IdleInv, IdleIsInactive, CaptureIsDone
<1>3. ASSUME ~FinishSession, ~\E s \in Slots : StartSession(s) PROVE IdleInv'
  <2>1. /\ Alive /\ UNCHANGED <<proc, pb, cap, cur>> /\ (Alive' => UNCHANGED captureState)
        /\ \/ UNCHANGED <<stage, ending>>
           \/ ~Alive'
           \/ stage' = "barrier"
           \/ stage = "running" /\ stage' = "joining" /\ ending = "None"
    BY <1>3, SupervisorEffect DEF sessionVars, captureVars, procVars, TypeInv, SessionOK
  <2> QED
    BY <2>1
       DEF IdleInv, IdleIsInactive, PlaybackIsDone, CaptureIsDone, Alive, DeviceFaults,
       PlaybackFaults, CaptureFaults
<1> QED
  BY <1>1, <1>2, <1>3

LEMMA ReleaseIdle ==
  ASSUME TypeInv, BarrierInv, ReadyInv, FaultInv, IdleInv, BarrierRelease PROVE IdleInv'
<1>1. /\ cur \in Slots /\ Alive /\ Starting /\ stage = "barrier"
      /\ UNCHANGED <<cur, ending, captureState>>
      /\ stage' = IF ending = "None" THEN "running" ELSE "joining"
      /\ \A t \in Slots \ {cur} : cap'[t] = cap[t]
      /\ cap'[cur] = (IF cap[cur] = "ready" THEN "loop" ELSE "none")
      /\ pb'[cur] = (IF pb[cur] = "ready" THEN "loop" ELSE "none")
      /\ proc'[cur] = "loop"
      /\ ending \in {"None"} \cup DeviceFaults
      /\ cap[cur] \in AtBarrier
  BY DEF BarrierRelease, AfterBarrier, TypeInv, TypeOK, ThreadTypeOK, SessionOK, Alive, Starting
<1>2. ending = "None" => cap[cur] = "ready" /\ pb[cur] = "ready"
  BY <1>1, BothReady
<1>3. ending \in CaptureFaults => cap'[cur] = "none"
  <2> SUFFICES ASSUME ending \in CaptureFaults PROVE cap'[cur] = "none"
    OBVIOUS
  <2>1. ending \in reported
    BY <1>1 DEF FaultInv, DeviceFaults
  <2> QED
    BY <1>1, <2>1 DEF FaultInv, CaptureFaults, AtBarrier
<1>4. /\ stage' = "running" \/ (stage' = "joining" /\ ending' \notin PlaybackFaults) =>
           (proc'[cur'] = "none" \/ PlaybackIsDone(cur)' => CaptureIsDone(cur)')
      /\ stage' \in {"running", "joining"} /\ ending' \notin DeviceFaults => cap'[cur'] # "none"
  BY <1>1, <1>2, <1>3
     DEF PlaybackIsDone, CaptureIsDone, DeviceFaults, PlaybackFaults, CaptureFaults
<1> QED
  BY <1>1, <1>4 DEF IdleInv, IdleIsInactive, CaptureIsDone

LEMMA ThreadsIdle ==
  ASSUME TypeInv, BarrierInv, EndInv, PipelineInv, IdleInv, NEW s \in Slots,
         CaptureThread(s) \/ PlaybackThread(s) \/ ProcessingThread(s)
  PROVE  IdleInv'
<1>1. UNCHANGED <<stage, ending, cur>> /\ Alive
  BY CaptureEffect, PlaybackEffect, ProcessingEffect DEF mainVars
<1>2. /\ CaptureIsDone(s) => CaptureIsDone(s)'
      /\ \A t \in Slots \ {s} : CaptureIsDone(t)' = CaptureIsDone(t)
  BY CaptureEffect, PlaybackEffect, ProcessingEffect DEF CaptureIsDone
<1>3. ASSUME NoPanics, stage \in {"running", "joining"},
             stage = "joining" => ending \notin PlaybackFaults,
             proc'[cur] = "none" \/ PlaybackIsDone(cur)'
      PROVE  CaptureIsDone(cur)'
  <2>1. cur \in Slots /\ PastBarrier(cur)
    BY <1>1, <1>3 DEF BarrierInv, Starting, TypeInv, SessionOK
  <2>2. proc[cur] = "none" \/ PlaybackIsDone(cur) => CaptureIsDone(cur)
    BY <1>3 DEF IdleInv
  <2>3. CASE proc[cur] = "none" \/ PlaybackIsDone(cur)
    BY <1>1, <1>2, <2>1, <2>2, <2>3 DEF CaptureIsDone
  <2>4. CASE cur = s /\ proc[s] # "none" /\ ~PlaybackIsDone(s) /\ PlaybackThread(s)
    <3>1. pbQ[s] # <<>> /\ Head(pbQ[s]) = "EndOfStream" /\ pbQ[s] \in Seq(AudioMessages)
      BY <1>1, <1>3, <2>4, PlaybackEffect DEF PlaybackIsDone, TypeInv, TypeOK, AudioQueuesOK
    <3>2. 1 \in 1..Len(pbQ[s]) /\ pbQ[s][1] = "EndOfStream"
      BY <3>1, Queues
    <3> QED
      BY <1>1, <1>2, <2>4, <3>2 DEF EndInv, IsIn, CaptureIsDone
  <2>5. CASE cur = s /\ proc[s] # "none" /\ ~PlaybackIsDone(s) /\ ProcessingThread(s)
    <3>1. /\ proc[s] = "send"
          /\ procMsg[s] = "EndOfStream" \/ (pipeconfQ[s] # <<>> /\ Panics(pipeline[s], Head(pipeconfQ[s])))
      BY <1>1, <1>3, <2>1, <2>5, ProcessingEffect DEF PastBarrier, PlaybackIsDone
    <3>2. procMsg[s] = "EndOfStream"
      BY <1>3, <3>1, ChangeDoesNotPanic
    <3> QED
      BY <1>1, <1>2, <2>5, <3>1, <3>2 DEF EndInv, CaptureIsDone
  <2>6. CASE (cur # s \/ CaptureThread(s)) /\ proc[cur] # "none" /\ ~PlaybackIsDone(cur)
    BY <1>1, <1>3, <2>1, <2>6, CaptureEffect, PlaybackEffect, ProcessingEffect DEF PlaybackIsDone
  <2> QED
    BY <2>3, <2>4, <2>5, <2>6
<1>4. ASSUME \A t \in Slots : t # cur => CaptureIsDone(t),
             stage \in {"running", "joining"}, ending \notin DeviceFaults, cap'[cur] = "none",
             cap[cur] = "none" => captureState = "Inactive"
      PROVE  captureState' = "Inactive"
  <2>1. cur \in Slots
    BY <1>4 DEF TypeInv, SessionOK
  <2>2. CASE CaptureThread(s) /\ cur = s
    BY <2>2, <1>4, CaptureEffect
  <2>3. CASE CaptureThread(s) /\ cur # s
    BY <2>1, <2>3, <1>4, CaptureEffect
  <2>4. CASE PlaybackThread(s) \/ ProcessingThread(s)
    BY <2>4, <1>4, PlaybackEffect, ProcessingEffect
  <2> QED
    BY <2>2, <2>3, <2>4
<1>5. ASSUME \A t \in Slots : t # cur => CaptureIsDone(t), IdleIsInactive PROVE IdleIsInactive'
  <2>1. stage = "wait" => cur # s
    BY SlotsAssumption DEF BarrierInv
  <2>2. CaptureThread(s) /\ CaptureIsDone(s) => captureState' \in {captureState, "Inactive"}
    BY CaptureEffect
  <2>3. PlaybackThread(s) \/ ProcessingThread(s) => UNCHANGED captureState
    BY PlaybackEffect, ProcessingEffect
  <2> QED
    BY <1>1, <1>5, <2>1, <2>2, <2>3 DEF IdleIsInactive
<1> QED
  BY <1>1, <1>2, <1>3, <1>4, <1>5 DEF IdleInv

LEMMA NextIdleInv ==
  /\ TypeInv /\ BarrierInv /\ ReadyInv /\ FaultInv /\ EndInv /\ PipelineInv /\ IdleInv
  /\ [Next]_vars
  => IdleInv'
<1>1. IdleInv /\ UNCHANGED vars => IdleInv'
  BY DEF vars, mainVars, captureVars, procVars, IdleInv, IdleIsInactive, PlaybackIsDone,
     CaptureIsDone, Alive
<1> QED
  BY <1>1, SupervisorIdle, ReleaseIdle, ThreadsIdle DEF Next

-----------------------------------------------------------------------------
\* ------------------------------- The theorems -----------------------------

SessionInv ==
  /\ TypeInv /\ PipelineInv
  /\ BarrierInv /\ ReadyInv /\ EndBeforeClose /\ FaultInv /\ AloneInv
  /\ EndOfStreamIsLast /\ EndInv /\ LastWordInv /\ DoneInv /\ IdleInv

LEMMA SessionInvariant == Spec => []SessionInv
<1>1. Init => SessionInv
  <2>1. Init => LastWordInv
    BY DEF Init, LastWordInv
  <2> QED
    BY <2>1, InitTypeInv, InitPipelineInv, InitBarrierInv, InitReadyInv, InitEndBeforeClose, InitAlone, InitStream,
       InitEndInv, InitDoneInv, InitIdleInv
       DEF SessionInv
<1>2. SessionInv /\ [Next]_vars => SessionInv'
  <2> SUFFICES ASSUME SessionInv, [Next]_vars PROVE SessionInv'
    OBVIOUS
  <2>1. TypeInv' /\ PipelineInv' /\ BarrierInv' /\ ReadyInv'
    BY NextTypeInv, NextPipelineInv, NextBarrierInv, NextReadyInv DEF SessionInv
  <2>2. EndBeforeClose' /\ FaultInv' /\ AloneInv'
    BY NextEndBeforeClose, NextFaultInv, NextAloneInv DEF SessionInv
  <2>3. EndOfStreamIsLast' /\ EndInv' /\ LastWordInv'
    BY NextStream, NextEndInv, NextLastWordInv DEF SessionInv
  <2>4. DoneInv' /\ IdleInv'
    BY NextDoneInv, NextIdleInv DEF SessionInv
  <2> QED
    BY <2>1, <2>2, <2>3, <2>4 DEF SessionInv
<1> QED
  BY <1>1, <1>2, PTL DEF Spec

\* The playback device of a session is closed before the next session opens it, unless
\* the playback thread reports an error in its loop: run() then returns without joining
\* it.  It does so when a write fails, and when the channel to it is lost because the
\* processing thread has panicked.
THEOREM PlaybackAlone ==
  ASSUME "pb_write" \notin Faults, NoPanics
  PROVE  Spec => []PlaybackExclusive
<1>1. SessionInv => PlaybackExclusive
  BY DEF SessionInv, AloneInv, PlaybackExclusive
<1> QED
  BY <1>1, SessionInvariant, PTL

\* The same for the capture device, unless the capture thread reports a fault in its
\* loop: a read error or a change of the sample rate.
THEOREM CaptureAlone ==
  ASSUME {"cap_read", "rate_change"} \cap Faults = {}
  PROVE  Spec => []CaptureExclusive
<1>1. SessionInv => CaptureExclusive
  BY DEF SessionInv, AloneInv, CaptureExclusive
<1> QED
  BY <1>1, SessionInvariant, PTL

\* And under the same condition no thread of an earlier session publishes Inactive over
\* the state of the one that captures.
THEOREM RunningIsShown ==
  ASSUME {"cap_read", "rate_change"} \cap Faults = {}
  PROVE  Spec => []RunningIsNotInactive
<1>1. SessionInv => RunningIsNotInactive
  BY DEF SessionInv, AloneInv, RunningIsNotInactive, TypeInv, SessionOK
<1> QED
  BY <1>1, SessionInvariant, PTL

\* Whatever the devices do, the supervisor waits for a status message only while there
\* is one or a thread that can send one.
THEOREM StatusChannelOpen == Spec => []StatusChannelStaysOpen
<1>1. SessionInv => StatusChannelStaysOpen
  <2> SUFFICES ASSUME SessionInv, stage \in {"starting", "running"}, statusQ[cur] = <<>>,
                      pb[cur] = "none"
               PROVE  FALSE
    BY DEF StatusChannelStaysOpen
  <2>1. CASE stage = "starting"
    BY <2>1 DEF SessionInv, BarrierInv, TypeInv, SessionOK, Alive, Starting, BeforeBarrier, Opening
  <2>2. CASE stage = "running"
    <3>1. Queued("PlaybackDone") \/ Queued("PlaybackError")
      BY <2>2 DEF SessionInv, LastWordInv, PlaybackIsDone
    <3> QED
      BY <3>1, EmptySeq DEF Queued
  <2> QED
    BY <2>1, <2>2
<1> QED
  BY <1>1, SessionInvariant, PTL

\* Without changes of the sample rate, a session that counts as played to its end has
\* reported no fault, although its threads report over two paths of different length.
THEOREM CleanEnd ==
  ASSUME "rate_change" \notin Faults
  PROVE  Spec => []CleanEndMeansNoFault
<1>1. SessionInv => CleanEndMeansNoFault
  BY DEF SessionInv, DoneInv
<1> QED
  BY <1>1, SessionInvariant, PTL

\* The published state is Inactive between sessions, also when a device failed, unless
\* the processing thread has panicked and a read failed: then run() returns without the
\* capture thread, which is still in its loop.
THEOREM IdleIsShown ==
  ASSUME NoPanics \/ "cap_read" \notin Faults
  PROVE  Spec => []IdleIsInactive
<1>1. SessionInv => IdleIsInactive
  BY DEF SessionInv, IdleInv, IdleIsInactive, Alive
<1> QED
  BY <1>1, SessionInvariant, PTL
=============================================================================
